---- MODULE Spec2Model ----
(***************************************************************************)
(* Model of the qrcode-pro symbol-encoding engine: the QRGenerator class   *)
(* (src/src/core/image-renderer.ts, second half), the ValidationUtils      *)
(* class (src/src/utils/logo-processor.ts, second half) and the QRCode     *)
(* facade (src/src/index.ts).                                              *)
(*                                                                         *)
(* A string is a sequence of UTF-16 code units.  A matrix (boolean[][]) is *)
(* a sequence of rows, each a sequence of BOOLEAN; the module the code     *)
(* addresses as matrix[y][x] (0-based) is At(matrix, x, y).                *)
(***************************************************************************)
EXTENDS Integers, Sequences, FiniteSets, TLC

\* ------------------------------------------------------------------ bounds
\* largest version a caller forces
MaxVersion == 2
\* longest payload made of one repeated character
MaxLen == 1
\* number of calls (QRGenerator.generate, QRCode.generate) made in a behaviour
MaxOps == 2
\* the longest text mode detection is applied to on its own
MaxText == 2
\* the number of calls a caller repeats on one generator
MaxRepeat == 3
\* the longest run of digits the encoder is applied to on its own
MaxDigits == 5
\* the longest Buffer the encoder is applied to on its own
MaxBuffer == 2
\* the longest array handed to generateBatch
MaxBatch == 3

\* ------------------------------------------------------- values and inputs
\* the JavaScript value undefined (an omitted argument or option)
Undefined == -1

Levels == {"L", "M", "Q", "H"}

NUMERIC == 1
ALPHANUMERIC == 2
BYTE == 4

\* a value in a boolean context (version || ..., maskPattern || ...)
Truthy(v) == v # Undefined /\ v # 0

\* a function on 1..n as a sequence
Tuple(f) == f \o << >>

\* the string of n copies of the code unit c
Rep(c, n) == Tuple([i \in 1..n |-> c])

\* "HELLO WORLD"
HelloWorld == <<72, 69, 76, 76, 79, 32, 87, 79, 82, 76, 68>>

Digits == 48..57
\* "0123456789ABCDEFGHIJKLMNOPQRSTUVWXYZ $%*+-./:"
alphanumericChars ==
  <<48, 49, 50, 51, 52, 53, 54, 55, 56, 57,
    65, 66, 67, 68, 69, 70, 71, 72, 73, 74, 75, 76, 77,
    78, 79, 80, 81, 82, 83, 84, 85, 86, 87, 88, 89, 90,
    32, 36, 37, 42, 43, 45, 46, 47, 58>>

\* String.prototype.indexOf for one code unit: 0-based, -1 when absent
indexOf(s, ch) ==
  IF \E i \in 1..Len(s) : s[i] = ch
  THEN (CHOOSE i \in 1..Len(s) : s[i] = ch /\ \A j \in 1..(i - 1) : s[j] # ch) - 1
  ELSE -1

\* ------------------------------------------------------------ static tables
VALIDATION ==
  [MIN_VERSION |-> 1, MAX_VERSION |-> 40, MIN_MASK_PATTERN |-> 0, MAX_MASK_PATTERN |-> 7]

\* the rows the source gives of CAPACITY_TABLE (versions 1, 2 and 40)
CAPACITY_TABLE ==
  [numeric |->
     (1 :> [L |-> 41, M |-> 34, Q |-> 27, H |-> 17]) @@
     (2 :> [L |-> 77, M |-> 63, Q |-> 48, H |-> 34]) @@
     (40 :> [L |-> 7089, M |-> 5596, Q |-> 3993, H |-> 3057]),
   alphanumeric |->
     (1 :> [L |-> 25, M |-> 20, Q |-> 16, H |-> 10]) @@
     (2 :> [L |-> 47, M |-> 38, Q |-> 29, H |-> 20]) @@
     (40 :> [L |-> 4296, M |-> 3391, Q |-> 2420, H |-> 1852]),
   byte |->
     (1 :> [L |-> 17, M |-> 14, Q |-> 11, H |-> 7]) @@
     (2 :> [L |-> 32, M |-> 26, Q |-> 20, H |-> 14]) @@
     (40 :> [L |-> 2953, M |-> 2331, Q |-> 1663, H |-> 1273])]

ERROR_MESSAGES ==
  [INVALID_DATA |-> "Invalid input data",
   DATA_TOO_LONG |-> "Input data is too long for the specified configuration",
   INVALID_VERSION |-> "QR code version must be between 1 and 40",
   INVALID_ERROR_CORRECTION |-> "Invalid error correction level",
   INVALID_MASK_PATTERN |-> "Mask pattern must be between 0 and 7",
   LOGO_TOO_LARGE |-> "Logo size exceeds maximum allowed percentage"]

LOGO_CONSTRAINTS ==
  [MAX_WIDTH_PERCENT |-> 30, MAX_HEIGHT_PERCENT |-> 30,
   MIN_WIDTH_PERCENT |-> 5, MIN_HEIGHT_PERCENT |-> 5,
   DEFAULT_WIDTH_PERCENT |-> 20, DEFAULT_HEIGHT_PERCENT |-> 20]

DEFAULT_OPTIONS ==
  [errorCorrectionLevel |-> "M", version |-> Undefined, maskPattern |-> Undefined,
   margin |-> [size |-> 4], scale |-> 4]

\* ------------------------------------------------------------ matrix helpers
\* matrix[y][x]
At(m, x, y) == m[y + 1][x + 1]

\* the matrix with matrix[y][x] = v
SetAt(m, x, y, v) == [m EXCEPT ![y + 1][x + 1] = v]

\* A loop of at most n iterations is run as at most blockSize(n) blocks of
\* at most blockSize(n) iterations, which keeps the nesting of its
\* evaluation near 2 * blockSize(n).
blockSize(n) == CHOOSE b \in 1..n : b * b >= n /\ (b - 1) * (b - 1) < n

\* ------------------------------------------------- QRGenerator: small helpers
\* getModuleCount with 21 + 4 * version, the side of the next version
getModuleCount_nextVersion(version) == 21 + 4 * version

getModuleCount(version) == 17 + 4 * version

QRGenerator_normalizeData(data) == data

isInBounds(modules, x, y) == x >= 0 /\ x < modules /\ y >= 0 /\ y < modules

isEmpty(x, y) == TRUE

isFinderPattern(modules, x, y) ==
  \/ (x < 9 /\ y < 9)
  \/ (x >= modules - 8 /\ y < 9)
  \/ (x < 9 /\ y >= modules - 8)

isDataModule(modules, x, y) == ~isFinderPattern(modules, x, y) /\ x # 6 /\ y # 6

\* (num >> i) & 1 for i = bitCount-1 .. 0, num a non-negative 31-bit value
toBits(num, bitCount) ==
  Tuple([k \in 1..bitCount |-> (num \div (2 ^ (bitCount - k))) % 2])

\* ------------------------------------------- QRGenerator: mode and version
\* detectDataMode with its first pattern left unanchored: /\d+/
QRGenerator_detectDataMode_unanchored(data) ==
  IF \E i \in 1..Len(data) : data[i] \in Digits
  THEN NUMERIC
  ELSE IF Len(data) >= 1 /\ \A i \in 1..Len(data) : indexOf(alphanumericChars, data[i]) >= 0
       THEN ALPHANUMERIC
       ELSE BYTE

QRGenerator_detectDataMode(data) ==
  IF Len(data) >= 1 /\ \A i \in 1..Len(data) : data[i] \in Digits
  THEN NUMERIC
  ELSE IF Len(data) >= 1 /\ \A i \in 1..Len(data) : indexOf(alphanumericChars, data[i]) >= 0
       THEN ALPHANUMERIC
       ELSE BYTE

\* Math.floor(version * 10 * errorMultiplier), multipliers 1, 0.8, 0.6, 0.4
getCapacity(version, errorLevel, mode) ==
  LET baseCapacity == version * 10
      errorMultiplier10 ==
        IF errorLevel = "L" THEN 10
        ELSE IF errorLevel = "M" THEN 8
        ELSE IF errorLevel = "Q" THEN 6
        ELSE 4
  IN (baseCapacity * errorMultiplier10) \div 10

\* the first version 1..40 whose capacity holds the data; threw when none does
determineVersion(data, errorLevel) ==
  LET dataMode == QRGenerator_detectDataMode(data)
      dataLength == Len(data)
      fits == {v \in 1..40 : dataLength <= getCapacity(v, errorLevel, dataMode)}
  IN IF fits = {}
     THEN [threw |-> "Data too long for QR code", value |-> Undefined]
     ELSE [threw |-> "", value |-> CHOOSE v \in fits : \A w \in fits : v <= w]

\* "" when the input passes, the message of the Error thrown otherwise
QRGenerator_validateInput(data, version) ==
  IF Len(data) = 0
  THEN "Input data cannot be empty"
  ELSE IF version < VALIDATION.MIN_VERSION \/ version > VALIDATION.MAX_VERSION
       THEN "Version must be between 1 and 40"
       ELSE ""

\* ------------------------------------------------ QRGenerator: the matrix
initializeMatrix(modules) ==
  Tuple([r \in 1..modules |-> Tuple([c \in 1..modules |-> FALSE])])

FinderPatternRows ==
  << <<TRUE, TRUE, TRUE, TRUE, TRUE, TRUE, TRUE>>,
     <<TRUE, FALSE, FALSE, FALSE, FALSE, FALSE, TRUE>>,
     <<TRUE, FALSE, TRUE, TRUE, TRUE, FALSE, TRUE>>,
     <<TRUE, FALSE, TRUE, TRUE, TRUE, FALSE, TRUE>>,
     <<TRUE, FALSE, TRUE, TRUE, TRUE, FALSE, TRUE>>,
     <<TRUE, FALSE, FALSE, FALSE, FALSE, FALSE, TRUE>>,
     <<TRUE, TRUE, TRUE, TRUE, TRUE, TRUE, TRUE>> >>

addFinderPattern(m, modules, startX, startY) ==
  Tuple([r \in 1..modules |-> Tuple([c \in 1..modules |->
    LET x == c - 1
        y == r - 1
    IN IF /\ x - startX \in 0..6
          /\ y - startY \in 0..6
          /\ isInBounds(modules, x, y)
       THEN FinderPatternRows[y - startY + 1][x - startX + 1]
       ELSE At(m, x, y)])])

addFinderPatterns(m, modules) ==
  LET m1 == addFinderPattern(m, modules, 0, 0)
      m2 == addFinderPattern(m1, modules, modules - 7, 0)
  IN addFinderPattern(m2, modules, 0, modules - 7)

addSeparator(m, modules, startX, startY, width, height) ==
  Tuple([r \in 1..modules |-> Tuple([c \in 1..modules |->
    LET x == c - 1
        y == r - 1
    IN IF /\ x \in startX..(startX + width - 1)
          /\ y \in startY..(startY + height - 1)
          /\ isInBounds(modules, x, y)
          /\ isEmpty(x, y)
          /\ ~isFinderPattern(modules, x, y)
       THEN FALSE
       ELSE At(m, x, y)])])

addSeparators(m, modules) ==
  LET m1 == addSeparator(m, modules, 0, 0, 8, 8)
      m2 == addSeparator(m1, modules, modules - 8, 0, 8, 8)
  IN addSeparator(m2, modules, 0, modules - 8, 8, 8)

\* the centres the code stamps alignment patterns at, as <<x, y>>
getAlignmentPatternPositions(version, modules) ==
  IF version = 2
  THEN << <<16, 16>> >>
  ELSE IF version >= 3
       THEN LET step == (modules - 13) \div 2 IN << <<step, step>> >>
       ELSE << >>

AlignmentPatternRows ==
  << <<TRUE, TRUE, TRUE, TRUE, TRUE>>,
     <<TRUE, FALSE, FALSE, FALSE, TRUE>>,
     <<TRUE, FALSE, TRUE, FALSE, TRUE>>,
     <<TRUE, FALSE, FALSE, FALSE, TRUE>>,
     <<TRUE, TRUE, TRUE, TRUE, TRUE>> >>

addAlignmentPattern(m, modules, centerX, centerY) ==
  Tuple([r \in 1..modules |-> Tuple([c \in 1..modules |->
    LET posX == c - 1
        posY == r - 1
    IN IF /\ posX - centerX \in -2..2
          /\ posY - centerY \in -2..2
          /\ isInBounds(modules, posX, posY)
          /\ isEmpty(posX, posY)
       THEN AlignmentPatternRows[posY - centerY + 3][posX - centerX + 3]
       ELSE At(m, posX, posY)])])

addAlignmentPatterns(m, version, modules) ==
  IF version < 2
  THEN m
  ELSE LET positions == getAlignmentPatternPositions(version, modules)
           \* the matrix after the first i positions
           stamped[i \in 0..Len(positions)] ==
             IF i = 0
             THEN m
             ELSE addAlignmentPattern(stamped[i - 1], modules, positions[i][1], positions[i][2])
       IN stamped[Len(positions)]

addTimingPatterns(m, modules) ==
  LET horizontal ==
        Tuple([r \in 1..modules |-> Tuple([c \in 1..modules |->
          LET x == c - 1
              y == r - 1
          IN IF y = 6 /\ x >= 8 /\ x < modules - 8 /\ isEmpty(x, 6)
             THEN x % 2 = 0
             ELSE At(m, x, y)])])
  IN Tuple([r \in 1..modules |-> Tuple([c \in 1..modules |->
       LET x == c - 1
           y == r - 1
       IN IF x = 6 /\ y >= 8 /\ y < modules - 8 /\ isEmpty(6, y)
          THEN y % 2 = 0
          ELSE At(horizontal, x, y)])])

addDarkModule(m, version, modules) ==
  LET x == 8
      y == 4 * version + 9
  IN IF isInBounds(modules, x, y) THEN SetAt(m, x, y, TRUE) ELSE m

\* reserveFormatInfo and reserveVersionInfo have empty bodies
reserveFormatInfo(m) == m

reserveVersionInfo(m) == m

\* ------------------------------------------------ QRGenerator: the bitstream
getCharCountBits(mode) ==
  IF mode = NUMERIC THEN 10
  ELSE IF mode = ALPHANUMERIC THEN 9
  ELSE IF mode = BYTE THEN 8
  ELSE 8

\* parseInt(group, 10) of a string of decimal digits
parseInt(group) ==
  LET value[k \in 0..Len(group)] ==
        IF k = 0 THEN 0 ELSE 10 * value[k - 1] + (group[k] - 48)
  IN value[Len(group)]

\* data.substr(i, 3) for 0-based i
substr3(data, i) == SubSeq(data, i + 1, IF i + 3 <= Len(data) THEN i + 3 ELSE Len(data))

\* encodeNumeric with toBits(value, 10) for every group, whatever its length
encodeNumeric_tenBits(data) ==
  LET from[i \in 0..(Len(data) + 3)] ==
        IF i >= Len(data)
        THEN << >>
        ELSE toBits(parseInt(substr3(data, i)), 10) \o from[i + 3]
  IN from[0]

encodeNumeric(data) ==
  LET \* the bits the loop pushes from index i on
      from[i \in 0..(Len(data) + 3)] ==
        IF i >= Len(data)
        THEN << >>
        ELSE LET group == substr3(data, i)
                 value == parseInt(group)
                 bits == IF Len(group) = 3 THEN toBits(value, 10)
                         ELSE IF Len(group) = 2 THEN toBits(value, 7)
                         ELSE toBits(value, 4)
             IN bits \o from[i + 3]
  IN from[0]

encodeAlphanumeric(data) ==
  LET \* the bits the loop pushes from index i on
      from[i \in 0..(Len(data) + 2)] ==
        IF i >= Len(data)
        THEN << >>
        ELSE LET char1 == indexOf(alphanumericChars, data[i + 1])
             IN IF i + 1 < Len(data)
                THEN LET char2 == indexOf(alphanumericChars, data[i + 2])
                         value == char1 * 45 + char2
                     IN toBits(value, 11) \o from[i + 2]
                ELSE toBits(char1, 6) \o from[i + 2]
  IN from[0]

\* each code unit's low 8 bits, most significant first
encodeByte(data) ==
  Tuple([k \in 1..(8 * Len(data)) |-> toBits(data[((k - 1) \div 8) + 1], 8)[((k - 1) % 8) + 1]])

encodeData(data) ==
  LET mode == QRGenerator_detectDataMode(data)
      charCountBits == getCharCountBits(mode)
      header == toBits(mode, 4) \o toBits(Len(data), charCountBits)
  IN IF mode = NUMERIC THEN header \o encodeNumeric(data)
     ELSE IF mode = ALPHANUMERIC THEN header \o encodeAlphanumeric(data)
     ELSE header \o encodeByte(data)

\* return [...data]
addErrorCorrection(data) == data

\* --------------------------------------------- QRGenerator: data placement
\* The state of the placement loops is
\* [m |-> matrix, dataIndex |-> bits consumed, padded |-> modules padded,
\*  col |-> the outer loop's col, direction |-> -1 for up, 1 for down,
\*  count |-> the inner loop's count].
\* placeCell is the body of the innermost loop for one c of one row.
placeCell(st, modules, data, col, c, y) ==
  LET x == col - c
  IN IF isInBounds(modules, x, y) /\ isEmpty(x, y)
     THEN IF st.dataIndex < Len(data)
          THEN [st EXCEPT !.m = SetAt(st.m, x, y, data[st.dataIndex + 1] = 1),
                          !.dataIndex = st.dataIndex + 1]
          ELSE [st EXCEPT !.m = SetAt(st.m, x, y, FALSE),
                          !.padded = st.padded + 1]
     ELSE st

\* the loop over count for the two-column strip at col
placeStrip(st, modules, data, col) ==
  LET \* one iteration
      body(prev) ==
        LET y == IF prev.direction = -1 THEN modules - 1 - prev.count ELSE prev.count
            s0 == placeCell(prev, modules, data, col, 0, y)
            s1 == placeCell(s0, modules, data, col, 1, y)
        IN [s1 EXCEPT !.count = prev.count + 1]
      \* the state after at most n more iterations from s
      run(s, n) ==
        LET after[k \in 0..n] ==
              IF k = 0
              THEN s
              ELSE LET prev == after[k - 1]
                   IN IF prev.count < modules THEN body(prev) ELSE prev
        IN after[n]
      size == blockSize(modules)
      \* the state after at most j blocks of size iterations
      blocks[j \in 0..size] ==
        IF j = 0
        THEN [st EXCEPT !.count = 0]
        ELSE LET prev == blocks[j - 1]
             IN IF prev.count < modules THEN run(prev, size) ELSE prev
  IN blocks[size]

\* the loop over col without if (col === 6) col--
placeColumns_timingColumn(st, modules, data) ==
  LET after[n \in 0..((modules + 1) \div 2)] ==
        IF n = 0
        THEN st
        ELSE LET prev == after[n - 1]
             IN IF prev.col > 0
                THEN LET placed == placeStrip(prev, modules, data, prev.col)
                     IN [placed EXCEPT !.col = prev.col - 2,
                                       !.direction = prev.direction * (-1)]
                ELSE prev
  IN after[(modules + 1) \div 2]

\* the loop over col
placeColumns(st, modules, data) ==
  LET \* the state after at most n iterations; col loses at least 2 in each
      after[n \in 0..((modules + 1) \div 2)] ==
        IF n = 0
        THEN st
        ELSE LET prev == after[n - 1]
             IN IF prev.col > 0
                THEN LET col == IF prev.col = 6 THEN prev.col - 1 ELSE prev.col
                         placed == placeStrip(prev, modules, data, col)
                     IN [placed EXCEPT !.col = col - 2, !.direction = prev.direction * (-1)]
                ELSE prev
  IN after[(modules + 1) \div 2]

\* the state after the placement loops
placeDataModules(m, modules, data) ==
  placeColumns([m |-> m, dataIndex |-> 0, padded |-> 0, col |-> modules - 1,
                direction |-> -1, count |-> 0],
               modules, data)

\* ------------------------------------------------------ QRGenerator: masks
shouldApplyMask(x, y, pattern) ==
  IF pattern = 0 THEN (x + y) % 2 = 0
  ELSE IF pattern = 1 THEN y % 2 = 0
  ELSE IF pattern = 2 THEN x % 3 = 0
  ELSE IF pattern = 3 THEN (x + y) % 3 = 0
  ELSE IF pattern = 4 THEN ((y \div 2) + (x \div 3)) % 2 = 0
  ELSE IF pattern = 5 THEN ((x * y) % 2) + ((x * y) % 3) = 0
  ELSE IF pattern = 6 THEN (((x * y) % 2) + ((x * y) % 3)) % 2 = 0
  ELSE IF pattern = 7 THEN (((x + y) % 2) + ((x * y) % 3)) % 2 = 0
  ELSE FALSE

applyMaskToMatrix(m, modules, pattern) ==
  Tuple([r \in 1..modules |-> Tuple([c \in 1..modules |->
    LET x == c - 1
        y == r - 1
    IN IF isDataModule(modules, x, y) /\ shouldApplyMask(x, y, pattern)
       THEN ~At(m, x, y)
       ELSE At(m, x, y)])])

applyMask(m, modules, pattern) == applyMaskToMatrix(m, modules, pattern)

\* the penalty of one row or column, scanned as the inner loops do; the
\* loop state is [i |-> the next 0-based index, count, penalty]
scanLine(line) ==
  LET modules == Len(line)
      \* one iteration
      body(prev) ==
        IF line[prev.i + 1] = line[prev.i]
        THEN [prev EXCEPT !.i = prev.i + 1, !.count = prev.count + 1]
        ELSE [i |-> prev.i + 1,
              count |-> 1,
              penalty |-> IF prev.count >= 5
                          THEN prev.penalty + prev.count - 2
                          ELSE prev.penalty]
      \* the state after at most n more iterations from s
      run(s, n) ==
        LET after[k \in 0..n] ==
              IF k = 0
              THEN s
              ELSE LET prev == after[k - 1]
                   IN IF prev.i < modules THEN body(prev) ELSE prev
        IN after[n]
      size == blockSize(modules)
      \* the state after at most j blocks of size iterations
      blocks[j \in 0..size] ==
        IF j = 0
        THEN [i |-> 1, count |-> 1, penalty |-> 0]
        ELSE LET prev == blocks[j - 1]
             IN IF prev.i < modules THEN run(prev, size) ELSE prev
      final == blocks[size]
  IN IF final.count >= 5 THEN final.penalty + final.count - 2 ELSE final.penalty

\* the sum of scanLine over the rows, then over the columns
calculateAdjacentPenalty(m, modules) ==
  LET row(y) == m[y + 1]
      column(x) == Tuple([r \in 1..modules |-> m[r][x + 1]])
      \* the penalty added for the rows (k < modules) and columns numbered r[1]..r[2]
      penalty[r \in (0..(2 * modules - 1)) \X (0..(2 * modules - 1))] ==
        IF r[1] = r[2]
        THEN IF r[1] < modules
             THEN scanLine(row(r[1]))
             ELSE scanLine(column(r[1] - modules))
        ELSE LET middle == (r[1] + r[2]) \div 2
             IN penalty[<<r[1], middle>>] + penalty[<<middle + 1, r[2]>>]
  IN penalty[<<0, 2 * modules - 1>>]

calculateBlockPenalty(m, modules) ==
  3 * Cardinality({p \in (0..(modules - 2)) \X (0..(modules - 2)) :
        LET x == p[1]
            y == p[2]
            color == At(m, x, y)
        IN /\ At(m, x + 1, y) = color
           /\ At(m, x, y + 1) = color
           /\ At(m, x + 1, y + 1) = color})

calculateMaskPenalty(m, modules) ==
  calculateAdjacentPenalty(m, modules) + calculateBlockPenalty(m, modules)

\* the lowestPenalty before any pattern was scored
Infinity == -1

\* selectBestMaskPattern with penalty <= lowestPenalty as its test
selectBestMaskPattern_lastBest(m, modules) ==
  LET after[n \in 0..8] ==
        IF n = 0
        THEN [bestPattern |-> 0, lowestPenalty |-> Infinity]
        ELSE LET prev == after[n - 1]
                 pattern == n - 1
                 testMatrix == applyMaskToMatrix(m, modules, pattern)
                 penalty == calculateMaskPenalty(testMatrix, modules)
             IN IF prev.lowestPenalty = Infinity \/ penalty <= prev.lowestPenalty
                THEN [bestPattern |-> pattern, lowestPenalty |-> penalty]
                ELSE prev
  IN after[8].bestPattern

selectBestMaskPattern(m, modules) ==
  LET \* [bestPattern, lowestPenalty] after the patterns 0..(n - 1) were scored
      after[n \in 0..8] ==
        IF n = 0
        THEN [bestPattern |-> 0, lowestPenalty |-> Infinity]
        ELSE LET prev == after[n - 1]
                 pattern == n - 1
                 testMatrix == applyMaskToMatrix(m, modules, pattern)
                 penalty == calculateMaskPenalty(testMatrix, modules)
             IN IF prev.lowestPenalty = Infinity \/ penalty < prev.lowestPenalty
                THEN [bestPattern |-> pattern, lowestPenalty |-> penalty]
                ELSE prev
  IN after[8].bestPattern

\* the five bits generateFormatInfo returns
generateFormatInfo(errorCorrectionLevel, maskPattern) ==
  LET errorCorrectionBits ==
        IF errorCorrectionLevel = "L" THEN <<0, 1>>
        ELSE IF errorCorrectionLevel = "M" THEN <<0, 0>>
        ELSE IF errorCorrectionLevel = "Q" THEN <<1, 1>>
        ELSE <<1, 0>>
  IN errorCorrectionBits \o toBits(maskPattern, 3)

\* addFormatInfo computes the bits and writes nothing
addFormatInfo(m) == m

generateVersionInfo(version) == toBits(version, 18)

\* addVersionInfo computes the bits and writes nothing
addVersionInfo(m) == m

\* --------------------------------------------------- QRGenerator.generate
\* the fields of a new QRGenerator
NewQRGenerator ==
  [matrix |-> << >>, version |-> 1, errorCorrectionLevel |-> "M", maskPattern |-> 0, modules |-> 21]

\* the matrix with every structural pattern stamped, before data placement
structuralMatrix(version, modules) ==
  LET m0 == initializeMatrix(modules)
      m1 == addFinderPatterns(m0, modules)
      m2 == addSeparators(m1, modules)
      m3 == addAlignmentPatterns(m2, version, modules)
      m4 == addTimingPatterns(m3, modules)
      m5 == addDarkModule(m4, version, modules)
      m6 == reserveFormatInfo(m5)
  IN IF version >= 7 THEN reserveVersionInfo(m6) ELSE m6

\* One call of generate.  Every field the call reads it has written
\* before, so what it does is a function of its arguments: threw is the
\* message of the Error thrown ("" when the call returned), assigned the
\* fields of this the call wrote, with their last values (the returned
\* matrix is assigned.matrix), bits the number of bits handed to
\* placeDataModules, dataIndex the bits it consumed, padded the modules it
\* padded and placed the matrix before masking.  The call is written as its
\* statements in turn, each part handed what the parts before it computed.

\* the call throws msg, having assigned the fields in assigned
generateThrows(msg, assigned) ==
  [threw |-> msg, bits |-> 0, dataIndex |-> 0, padded |-> 0, placed |-> << >>,
   assigned |-> assigned]

\* applyMask(this.maskPattern), addFormatInfo, addVersionInfo and the return
generateMasks(errorCorrectionLevel, resolved, modules, bits, placement, mask) ==
  [threw |-> "",
   bits |-> bits,
   dataIndex |-> placement.dataIndex,
   padded |-> placement.padded,
   placed |-> placement.m,
   assigned |-> [errorCorrectionLevel |-> errorCorrectionLevel,
                 version |-> resolved,
                 modules |-> modules,
                 matrix |-> IF resolved >= 7
                            THEN addVersionInfo(addFormatInfo(applyMask(placement.m, modules, mask)))
                            ELSE addFormatInfo(applyMask(placement.m, modules, mask)),
                 maskPattern |-> mask]]

\* the choice of this.maskPattern, once the data modules are placed
generateSelects(errorCorrectionLevel, maskPattern, resolved, modules, bits, placement) ==
  generateMasks(errorCorrectionLevel, resolved, modules, bits, placement,
                IF maskPattern # Undefined
                THEN maskPattern
                ELSE selectBestMaskPattern(placement.m, modules))

\* from initializeMatrix to placeDataModules(finalData)
generatePlaces(errorCorrectionLevel, maskPattern, resolved, modules, finalData) ==
  generateSelects(errorCorrectionLevel, maskPattern, resolved, modules, Len(finalData),
                  placeDataModules(structuralMatrix(resolved, modules), modules, finalData))

\* from this.version = ... to addErrorCorrection(encodedData)
generateResolves(inputData, errorCorrectionLevel, maskPattern, determined) ==
  IF determined.threw # ""
  THEN generateThrows(determined.threw, [errorCorrectionLevel |-> errorCorrectionLevel])
  ELSE IF QRGenerator_validateInput(inputData, determined.value) # ""
       THEN generateThrows(QRGenerator_validateInput(inputData, determined.value),
                           [errorCorrectionLevel |-> errorCorrectionLevel,
                            version |-> determined.value,
                            modules |-> getModuleCount(determined.value)])
       ELSE generatePlaces(errorCorrectionLevel, maskPattern, determined.value,
                           getModuleCount(determined.value),
                           addErrorCorrection(encodeData(inputData)))

generate(data, errorCorrectionLevel, version, maskPattern) ==
  generateResolves(QRGenerator_normalizeData(data), errorCorrectionLevel, maskPattern,
                   IF Truthy(version)
                   THEN [threw |-> "", value |-> version]
                   ELSE determineVersion(QRGenerator_normalizeData(data),
                                         errorCorrectionLevel))

\* ---------------------------------------------------------- ValidationUtils
\* an option the caller left out of the options object
NoLevel == "undefined"

ValidationUtils_normalizeData(data) == data

ValidationUtils_detectDataMode(data) ==
  IF Len(data) >= 1 /\ \A i \in 1..Len(data) : data[i] \in Digits
  THEN "numeric"
  ELSE IF Len(data) >= 1 /\ \A i \in 1..Len(data) : indexOf(alphanumericChars, data[i]) >= 0
       THEN "alphanumeric"
       ELSE "byte"

\* Math.floor(baseCapacity * modeMultiplier * errorMultiplier), with the
\* multipliers 2.4, 1.8, 1 and 1, 0.8, 0.6, 0.4 in tenths
getCapacityForVersion(version, errorLevel, mode) ==
  LET baseCapacity == IF version = 1 THEN 25 ELSE version * 15
      modeMultiplier10 ==
        IF mode = "numeric" THEN 24
        ELSE IF mode = "alphanumeric" THEN 18
        ELSE 10
      errorMultiplier10 ==
        IF errorLevel = "L" THEN 10
        ELSE IF errorLevel = "M" THEN 8
        ELSE IF errorLevel = "Q" THEN 6
        ELSE 4
  IN (baseCapacity * modeMultiplier10 * errorMultiplier10) \div 100

\* a ValidationResult: error is "" and suggestedVersion Undefined when absent
ValidationResult(valid, error, suggestedVersion) ==
  [valid |-> valid, error |-> error, suggestedVersion |-> suggestedVersion]

\* validateData without its length tests
validateData_anyLength(data) == ValidationResult(TRUE, "", Undefined)

validateData(data) ==
  IF Len(data) = 0
  THEN ValidationResult(FALSE, ERROR_MESSAGES.INVALID_DATA, Undefined)
  ELSE ValidationResult(TRUE, "", Undefined)

validateVersion(version) ==
  IF version < VALIDATION.MIN_VERSION \/ version > VALIDATION.MAX_VERSION
  THEN ValidationResult(FALSE, ERROR_MESSAGES.INVALID_VERSION, Undefined)
  ELSE ValidationResult(TRUE, "", Undefined)

validateErrorCorrectionLevel(level) ==
  IF level \notin Levels
  THEN ValidationResult(FALSE, ERROR_MESSAGES.INVALID_ERROR_CORRECTION, Undefined)
  ELSE ValidationResult(TRUE, "", Undefined)

validateMaskPattern(pattern) ==
  IF pattern < VALIDATION.MIN_MASK_PATTERN \/ pattern > VALIDATION.MAX_MASK_PATTERN
  THEN ValidationResult(FALSE, ERROR_MESSAGES.INVALID_MASK_PATTERN, Undefined)
  ELSE ValidationResult(TRUE, "", Undefined)

validateOptions(options) ==
  IF options.version # Undefined /\ ~validateVersion(options.version).valid
  THEN validateVersion(options.version)
  ELSE IF /\ options.errorCorrectionLevel # NoLevel
          /\ ~validateErrorCorrectionLevel(options.errorCorrectionLevel).valid
       THEN validateErrorCorrectionLevel(options.errorCorrectionLevel)
       ELSE IF /\ options.maskPattern # Undefined
               /\ ~validateMaskPattern(options.maskPattern).valid
            THEN validateMaskPattern(options.maskPattern)
            ELSE ValidationResult(TRUE, "", Undefined)

validateCapacity(data, options) ==
  LET errorLevel == IF options.errorCorrectionLevel # NoLevel
                    THEN options.errorCorrectionLevel
                    ELSE DEFAULT_OPTIONS.errorCorrectionLevel
      dataLength == Len(data)
      mode == ValidationUtils_detectDataMode(data)
      fits == {v \in 1..40 : dataLength <= getCapacityForVersion(v, errorLevel, mode)}
  IN IF Truthy(options.version)
     THEN IF dataLength > getCapacityForVersion(options.version, errorLevel, mode)
          THEN ValidationResult(FALSE, ERROR_MESSAGES.DATA_TOO_LONG, Undefined)
          ELSE ValidationResult(TRUE, "", Undefined)
     ELSE IF fits # {}
          THEN ValidationResult(TRUE, "", CHOOSE v \in fits : \A w \in fits : v <= w)
          ELSE ValidationResult(FALSE, ERROR_MESSAGES.DATA_TOO_LONG, Undefined)

ValidationUtils_validateInput(data, options) ==
  LET dataValidation == validateData(data)
      optionsValidation == validateOptions(options)
      normalizedData == ValidationUtils_normalizeData(data)
      capacityValidation == validateCapacity(normalizedData, options)
  IN IF ~dataValidation.valid THEN dataValidation
     ELSE IF ~optionsValidation.valid THEN optionsValidation
     ELSE IF ~capacityValidation.valid THEN capacityValidation
     ELSE ValidationResult(TRUE, "", capacityValidation.suggestedVersion)

\* ------------------------------------------------------------------- QRCode
mergeOptions(options) ==
  [errorCorrectionLevel |-> IF options.errorCorrectionLevel # NoLevel
                            THEN options.errorCorrectionLevel
                            ELSE DEFAULT_OPTIONS.errorCorrectionLevel,
   version |-> IF Truthy(options.version) THEN options.version ELSE Undefined,
   maskPattern |-> IF Truthy(options.maskPattern) THEN options.maskPattern ELSE Undefined,
   margin |-> [size |-> DEFAULT_OPTIONS.margin.size],
   scale |-> DEFAULT_OPTIONS.scale]

\* for the formats whose width option is left out
calculateOutputSize(modules, options) ==
  LET margin == options.margin.size
      scale == options.scale
      totalModules == modules + margin * 2
  IN totalModules * scale

\* the arguments QRCode.generate hands to this.generator.generate
generatorArguments(data, options) ==
  LET validation == ValidationUtils_validateInput(data, options)
      finalOptions == mergeOptions(options)
  IN [data |-> data,
      level |-> finalOptions.errorCorrectionLevel,
      version |-> IF Truthy(validation.suggestedVersion)
                  THEN validation.suggestedVersion
                  ELSE finalOptions.version,
      mask |-> finalOptions.maskPattern]

\* ------------------------------------------------------------------ callers
\* "7" and "a": a numeric and a byte-mode character ("HELLO WORLD" is
\* alphanumeric)
Alphabet == {55, 97}

\* the largest byte-mode capacity CAPACITY_TABLE lists for level L
ByteCapacity40L == CAPACITY_TABLE.byte[40].L

Payloads ==
  {Rep(c, n) : c \in Alphabet, n \in 1..MaxLen}
    \cup {HelloWorld}
    \cup {<< >>}
    \cup {Rep(97, ByteCapacity40L), Rep(97, ByteCapacity40L + 1)}

\* twelve U+0099: in byte mode each is the bits 10011001, which lie along
\* the placement path as pattern 0 does
Checkered == Rep(153, 12)

\* seventeen bytes that at level H and version 1 give the patterns 0 and 7
\* the same, lowest penalty
Tied == <<97, 51, 255, 102, 240, 255, 51, 204, 153, 102, 102, 153, 240, 51, 240, 255, 85>>

\* the versions and masks next to the ends of the ranges VALIDATION allows
OutOfRangeVersions == {VALIDATION.MIN_VERSION - 1, VALIDATION.MAX_VERSION + 1}

OutOfRangeMasks == {VALIDATION.MAX_MASK_PATTERN + 1}

\* the calls made of QRGenerator.generate(data, level, version, mask): every
\* payload at every level with version and mask left out, one payload with
\* version and mask forced, "7" with a version or a mask out of range, and
\* one payload with the version forced and the mask left out
DirectCalls ==
  [data : Payloads, level : Levels, version : {Undefined}, mask : {Undefined}]
    \cup [data : {Checkered}, level : {"Q"}, version : 1..MaxVersion, mask : 0..7]
    \cup [data : {Rep(55, 1)}, level : {"M"}, version : OutOfRangeVersions,
          mask : {Undefined}]
    \cup [data : {Rep(55, 1)}, level : {"M"}, version : {Undefined},
          mask : OutOfRangeMasks]
    \cup [data : {Tied}, level : {"H"}, version : {1}, mask : {Undefined}]

\* the calls made of QRCode.generate(data, format, options) and of
\* QRCode.validate(data, options): every payload with the level left out or
\* L, one payload with version and mask forced, and "7" with a version or a
\* mask out of range
QRCodeCalls ==
  [data : Payloads,
   options : [errorCorrectionLevel : {NoLevel, "L"},
              version : {Undefined},
              maskPattern : {Undefined}]]
    \cup [data : {Checkered},
          options : [errorCorrectionLevel : {"Q"},
                     version : 1..MaxVersion,
                     maskPattern : {VALIDATION.MIN_MASK_PATTERN,
                                    VALIDATION.MAX_MASK_PATTERN}]]
    \cup [data : {Rep(55, 1)},
          options : [errorCorrectionLevel : {NoLevel},
                     version : OutOfRangeVersions,
                     maskPattern : {Undefined}]]
    \cup [data : {Rep(55, 1)},
          options : [errorCorrectionLevel : {NoLevel},
                     version : {Undefined},
                     maskPattern : OutOfRangeMasks]]

\* every argument list generate is called with
GenerateCalls ==
  {c : c \in DirectCalls \cup
            {generatorArguments(q.data, q.options) :
               q \in {v \in QRCodeCalls :
                        ValidationUtils_validateInput(v.data, v.options).valid}}}

\* what each of these calls of generate does
Runs == [c \in GenerateCalls |-> generate(c.data, c.level, c.version, c.mask)]

\* the calls of generate that left the mask to selectBestMaskPattern and
\* returned
SelectingCalls == {c \in GenerateCalls : c.mask = Undefined /\ Runs[c].threw = ""}

\* the penalty calculateMaskPenalty gives each of the patterns 0..7 on the
\* matrix such a call placed
MaskPenalties ==
  [c \in {s : s \in SelectingCalls} |->
     [pattern \in 0..7 |->
        calculateMaskPenalty(
          applyMaskToMatrix(Runs[c].placed, Runs[c].assigned.modules, pattern),
          Runs[c].assigned.modules)]]

\* generate with this.maskPattern = maskPattern || this.maskPattern: a mask
\* of 0 is read as none and the mask the generator held is applied
assignedTo_heldMask(this, c) ==
  IF c.mask = 0 /\ [c EXCEPT !.mask = this.maskPattern] \in DOMAIN Runs
  THEN Runs[[c EXCEPT !.mask = this.maskPattern]].assigned @@ this
  ELSE Runs[c].assigned @@ this

\* the fields of a generator after the call c of generate ran on it: those
\* the run assigned, and the others as they were
assignedTo(this, c) ==
  Runs[c].assigned @@ this

\* ------------------------------------------------------------ state machine
\* qrGenerator: the fields of a QRGenerator a caller drives directly
\* generator:   the fields of the QRCode instance's this.generator
\* pending:     the QRCode.generate activations suspended at their await
\* outcome:     what the last step of a call did
\* ops:         the number of calls made
\* held:        what a caller that repeats its calls of QRGenerator.generate
\*              got from each of them, in the order of the calls
VARIABLES qrGenerator, generator, pending, outcome, ops, held

vars == <<qrGenerator, generator, pending, outcome, ops, held>>

NoResult ==
  [version |-> 0, errorCorrectionLevel |-> "", maskPattern |-> 0, modules |-> 0,
   size |-> [width |-> 0, height |-> 0]]

NoArguments == [data |-> << >>, level |-> "", version |-> Undefined, mask |-> Undefined]

\* api: the method called; phase: "threw" (the call threw, or its promise
\* rejected, with the message threw), "returned" (generate returned its
\* matrix), "suspended" (QRCode.generate reached its await) or "resolved"
\* (QRCode.generate resumed and its promise resolved with result) or
\* "validated" (QRCode.validate returned, threw being the error of an
\* invalid result);
\* request: the caller's arguments; arguments: what generate was called with
Outcome(api, phase, request, arguments, threw, result) ==
  [api |-> api, phase |-> phase, request |-> request, arguments |-> arguments,
   threw |-> threw, result |-> result]

Init ==
  /\ qrGenerator = NewQRGenerator
  /\ generator = NewQRGenerator
  /\ pending = << >>
  /\ outcome = Outcome("none", "none", NoArguments, NoArguments, "", NoResult)
  /\ ops = 0
  /\ held = << >>

\* a caller runs QRGenerator.generate(data, level, version, mask)
QRGenerator_generate ==
  /\ ops < MaxOps
  /\ \E c \in DirectCalls :
       LET done == Runs[c]
       IN /\ qrGenerator' = done.assigned @@ qrGenerator
          /\ outcome' = Outcome("QRGenerator.generate",
                                IF done.threw = "" THEN "returned" ELSE "threw",
                                c, c, done.threw, NoResult)
  /\ ops' = ops + 1
  /\ UNCHANGED <<generator, pending, held>>

\* a caller runs QRCode.generate(data, format, options) up to its await
QRCode_generate ==
  /\ ops < MaxOps
  /\ \E q \in QRCodeCalls :
       LET validation == ValidationUtils_validateInput(q.data, q.options)
       IN IF ~validation.valid
          THEN /\ outcome' = Outcome("QRCode.generate", "threw", q, NoArguments,
                                     validation.error, NoResult)
               /\ UNCHANGED <<generator, pending>>
          ELSE LET finalOptions == mergeOptions(q.options)
                   arguments == generatorArguments(q.data, q.options)
                   done == Runs[arguments]
               IN /\ generator' = done.assigned @@ generator
                  /\ IF done.threw # ""
                     THEN /\ outcome' = Outcome("QRCode.generate", "threw", q, arguments,
                                                done.threw, NoResult)
                          /\ UNCHANGED pending
                     ELSE /\ outcome' = Outcome("QRCode.generate", "suspended", q,
                                                arguments, "", NoResult)
                          /\ pending' = Append(pending,
                                               [request |-> q,
                                                arguments |-> arguments,
                                                finalOptions |-> finalOptions])
  /\ ops' = ops + 1
  /\ UNCHANGED <<qrGenerator, held>>

\* a suspended QRCode.generate resumes after its await and builds its result
QRCode_generate_resume ==
  /\ \E i \in 1..Len(pending) :
       LET activation == pending[i]
           size == calculateOutputSize(generator.modules, activation.finalOptions)
       IN /\ outcome' = Outcome("QRCode.generate", "resolved",
                                activation.request, activation.arguments, "",
                                [version |-> generator.version,
                                 errorCorrectionLevel |-> generator.errorCorrectionLevel,
                                 maskPattern |-> generator.maskPattern,
                                 modules |-> generator.modules,
                                 size |-> [width |-> size, height |-> size]])
          /\ pending' = SubSeq(pending, 1, i - 1) \o SubSeq(pending, i + 1, Len(pending))
  /\ UNCHANGED <<qrGenerator, generator, ops, held>>

\* a caller runs QRCode.validate(data, options)
QRCode_validate ==
  /\ ops < MaxOps
  /\ \E q \in QRCodeCalls :
       outcome' = Outcome("QRCode.validate", "validated", q, NoArguments,
                          ValidationUtils_validateInput(q.data, q.options).error,
                          NoResult)
  /\ ops' = ops + 1
  /\ UNCHANGED <<qrGenerator, generator, pending, held>>

Next ==
  \/ QRGenerator_generate
  \/ QRCode_generate
  \/ QRCode_generate_resume
  \/ QRCode_validate

Spec == Init /\ [][Next]_vars

\* ------------------------------------------- mode detection on its own
\* the characters at the edges of the classes the two patterns name:
\* space , / 0 9 : ; A Z [ a
DetectChars == {32, 44, 47, 48, 57, 58, 59, 65, 90, 91, 97}

\* every text of 1..MaxText of these characters
Texts == UNION {[1..n -> DetectChars] : n \in 1..MaxText}

\* both detectDataMode implementations are applied to one text
DetectDataMode ==
  /\ \E data \in Texts :
       outcome' = Outcome("detectDataMode", "returned",
                          [data |-> data, level |-> "", version |-> Undefined,
                           mask |-> Undefined],
                          NoArguments, "",
                          [generator |-> QRGenerator_detectDataMode(data),
                           validation |-> ValidationUtils_detectDataMode(data)])
  /\ UNCHANGED <<qrGenerator, generator, pending, ops, held>>

SpecDetect == Init /\ [][DetectDataMode]_vars

\* ------------------------------------------- one generator, called again
\* the calls a caller repeats on one QRGenerator: a payload with explicit
\* version, level and mask (two masks for one version, and two versions),
\* a call that lets generate resolve version and mask, a call that throws
\* after version and modules were assigned, and a call that throws before
RepeatCalls ==
  {c \in DirectCalls :
     \/ c.data = Checkered /\ c.version \in 1..2 /\ c.mask \in {0, 7}
     \/ c.data = Rep(55, 1) /\ c.level = "M" /\ c.mask = Undefined
          /\ c.version \in {Undefined, VALIDATION.MAX_VERSION + 1}
     \/ c.data = << >> /\ c.level = "L"}

\* a caller runs QRGenerator.generate(data, level, version, mask) and keeps
\* what it returned
Repeat_generate ==
  /\ Len(held) < MaxRepeat
  /\ \E c \in RepeatCalls :
       LET done == Runs[c]
       IN /\ qrGenerator' = assignedTo(qrGenerator, c)
          /\ held' = Append(held, [call |-> c,
                                   threw |-> done.threw,
                                   matrix |-> IF done.threw = ""
                                              THEN qrGenerator'.matrix
                                              ELSE << >>])
          /\ outcome' = Outcome("QRGenerator.generate",
                                IF done.threw = "" THEN "returned" ELSE "threw",
                                c, c, done.threw, NoResult)
  /\ UNCHANGED <<generator, pending, ops>>

SpecRepeat == Init /\ [][Repeat_generate]_vars

\* ------------------------------------------------ the encoder on its own
\* a version of each end of the three ranges 1..9, 10..26 and 27..40
TierVersions == {1, 9, 10, 26, 27, 40}

\* "12345"
OneToFive == <<49, 50, 51, 52, 53>>

\* every text of 1..MaxDigits of the digits 0 and 9, and "12345"
DigitTexts == UNION {[1..n -> {48, 57}] : n \in 1..MaxDigits} \cup {OneToFive}

\* string payloads: digits, texts of the 45 characters ("HELLO WORLD",
\* "A", "A7", ":Z$"), and texts of other characters: "a", the characters
\* U+00E9 and U+00FF, and U+0100 and U+20AC, whose code has more than 8 bits;
\* and the texts of "a" one shorter than and as long as 2 ^ 8, the first
\* length the 8 bits of the byte-mode count cannot hold
EncodeStrings ==
  DigitTexts
    \cup {HelloWorld, <<65>>, <<65, 55>>, <<58, 90, 36>>}
    \cup {<<97>>, <<233>>, <<255>>, <<256>>, <<97, 8364>>, <<8364, 97, 256>>}
    \cup {Rep(97, 2 ^ getCharCountBits(BYTE) - 1), Rep(97, 2 ^ getCharCountBits(BYTE))}

\* the bytes of the Buffers: "A", "a", a continuation byte, the lead byte
\* and the continuation byte of U+00E9 in UTF-8, and a byte no UTF-8 text
\* holds
BufferBytes == {65, 97, 128, 195, 169, 255}

\* Buffer payloads, as their bytes
EncodeBuffers == UNION {[1..n -> BufferBytes] : n \in 1..MaxBuffer}

\* Buffer.toString("utf8") on bytes below 0xE0: a byte below 0x80 is its
\* character, a lead byte 0xC2..0xDF followed by a continuation byte
\* 0x80..0xBF is the character of the two, and any other byte is U+FFFD
Buffer_toString(bytes) ==
  LET from[i \in 1..(Len(bytes) + 2)] ==
        IF i > Len(bytes)
        THEN << >>
        ELSE IF bytes[i] < 128
        THEN <<bytes[i]>> \o from[i + 1]
        ELSE IF /\ bytes[i] \in 194..223
                /\ i + 1 <= Len(bytes)
                /\ bytes[i + 1] \in 128..191
        THEN <<(bytes[i] % 32) * 64 + (bytes[i + 1] % 64)>> \o from[i + 2]
        ELSE <<65533>> \o from[i + 1]
  IN from[1]

\* what encodeData is seen to do with the string inputData
Encoded(inputData) ==
  [mode |-> QRGenerator_detectDataMode(inputData),
   inputData |-> inputData,
   countBits |-> getCharCountBits(QRGenerator_detectDataMode(inputData)),
   encoded |-> encodeData(inputData)]

\* generate normalizes a string payload and encodes it, this.version being
\* version
EncodeString ==
  /\ \E data \in EncodeStrings : \E version \in TierVersions :
       outcome' = Outcome("encodeData.string", "returned",
                          [data |-> data, level |-> "", version |-> version,
                           mask |-> Undefined],
                          NoArguments, "",
                          Encoded(QRGenerator_normalizeData(data)))
  /\ UNCHANGED <<qrGenerator, generator, pending, ops, held>>

\* generate normalizes a Buffer payload and encodes it, this.version being
\* version
EncodeBuffer ==
  /\ \E data \in EncodeBuffers : \E version \in TierVersions :
       outcome' = Outcome("encodeData.buffer", "returned",
                          [data |-> data, level |-> "", version |-> version,
                           mask |-> Undefined],
                          NoArguments, "",
                          Encoded(Buffer_toString(data)))
  /\ UNCHANGED <<qrGenerator, generator, pending, ops, held>>

SpecEncode == Init /\ [][EncodeString \/ EncodeBuffer]_vars

\* ------------------------------------------- generate, statement by statement
\* the statements of generate from initializeMatrix on, in their order
Statements ==
  <<"initializeMatrix", "addFinderPatterns", "addSeparators", "addAlignmentPatterns",
    "addTimingPatterns", "addDarkModule", "reserveFormatInfo", "reserveVersionInfo",
    "encodeData", "addErrorCorrection", "placeDataModules", "maskPattern",
    "applyMask", "addFormatInfo", "addVersionInfo", "return">>

\* the statements under if (this.version >= 7)
VersionStatements == {"reserveVersionInfo", "addVersionInfo"}

\* generate with applyMask and the choice of the mask moved before
\* placeDataModules
statementAfter_maskFirst(position, version) ==
  LET order == <<1, 2, 3, 4, 5, 6, 7, 8, 9, 10, 12, 13, 11, 14, 15, 16>>
      at == IF position = 0 THEN 0 ELSE CHOOSE k \in 1..16 : order[k] = position
  IN order[CHOOSE k \in (at + 1)..16 :
             /\ Statements[order[k]] \in VersionStatements => version >= 7
             /\ \A j \in (at + 1)..(k - 1) :
                  Statements[order[j]] \in VersionStatements /\ version < 7]

\* the position in Statements of the statement generate runs after the one
\* at position (0: none was run yet)
statementAfter(position, version) ==
  CHOOSE next \in (position + 1)..Len(Statements) :
    /\ Statements[next] \in VersionStatements => version >= 7
    /\ \A skipped \in (position + 1)..(next - 1) :
         Statements[skipped] \in VersionStatements /\ version < 7

\* the fields of the generator and the locals of generate after the
\* statement name ran
statement(name, this, maskPattern, locals) ==
  LET modules == this.modules
      matrix(m) == [this |-> [this EXCEPT !.matrix = m], locals |-> locals]
  IN CASE name = "initializeMatrix" -> matrix(initializeMatrix(modules))
       [] name = "addFinderPatterns" -> matrix(addFinderPatterns(this.matrix, modules))
       [] name = "addSeparators" -> matrix(addSeparators(this.matrix, modules))
       [] name = "addAlignmentPatterns" ->
            matrix(addAlignmentPatterns(this.matrix, this.version, modules))
       [] name = "addTimingPatterns" -> matrix(addTimingPatterns(this.matrix, modules))
       [] name = "addDarkModule" ->
            matrix(addDarkModule(this.matrix, this.version, modules))
       [] name = "reserveFormatInfo" -> matrix(reserveFormatInfo(this.matrix))
       [] name = "reserveVersionInfo" -> matrix(reserveVersionInfo(this.matrix))
       [] name = "encodeData" ->
            [this |-> this,
             locals |-> [locals EXCEPT !.encodedData = encodeData(locals.inputData)]]
       [] name = "addErrorCorrection" ->
            [this |-> this,
             locals |-> [locals EXCEPT
                           !.finalData = addErrorCorrection(locals.encodedData)]]
       [] name = "placeDataModules" ->
            matrix(placeDataModules(this.matrix, modules, locals.finalData).m)
       [] name = "maskPattern" ->
            [this |-> [this EXCEPT
                         !.maskPattern =
                           IF maskPattern # Undefined
                           THEN maskPattern
                           ELSE selectBestMaskPattern(this.matrix, modules)],
             locals |-> locals]
       [] name = "applyMask" -> matrix(applyMask(this.matrix, modules, this.maskPattern))
       [] name = "addFormatInfo" -> matrix(addFormatInfo(this.matrix))
       [] name = "addVersionInfo" -> matrix(addVersionInfo(this.matrix))
       [] OTHER -> [this |-> this, locals |-> locals]

\* the calls followed statement by statement, none of which throws: a
\* payload under each version with a mask forced or left to selection, a
\* payload with nothing forced, and a call of version 7
StepCalls ==
  [data : {Checkered}, level : {"Q"}, version : 1..MaxVersion, mask : {0, 7, Undefined}]
    \cup [data : {HelloWorld}, level : {"M"}, version : {Undefined}, mask : {Undefined}]
    \cup [data : {Rep(55, 1)}, level : {"M"}, version : {7}, mask : {0}]

\* generate is called and runs up to validateInput
GenerateStarts ==
  /\ ops < MaxOps
  /\ outcome.api = "none" \/ (outcome.api = "generate" /\ outcome.phase = "return")
  /\ \E c \in StepCalls :
       LET inputData == QRGenerator_normalizeData(c.data)
           version == IF Truthy(c.version)
                      THEN c.version
                      ELSE determineVersion(inputData, c.level).value
       IN /\ qrGenerator' = [qrGenerator EXCEPT !.errorCorrectionLevel = c.level,
                                                !.version = version,
                                                !.modules = getModuleCount(version)]
          /\ outcome' = Outcome("generate", "validateInput", c, c, "",
                                [position |-> 0,
                                 ran |-> << >>,
                                 locals |-> [inputData |-> inputData,
                                             encodedData |-> << >>,
                                             finalData |-> << >>]])
  /\ ops' = ops + 1
  /\ UNCHANGED <<generator, pending, held>>

\* generate runs its next statement
GenerateStep ==
  /\ outcome.api = "generate"
  /\ outcome.phase # "return"
  /\ LET next == statementAfter(outcome.result.position, qrGenerator.version)
         after == statement(Statements[next], qrGenerator, outcome.request.mask,
                            outcome.result.locals)
     IN /\ qrGenerator' = after.this
        /\ outcome' = [outcome EXCEPT
                         !.phase = Statements[next],
                         !.result = [position |-> next,
                                     ran |-> Append(outcome.result.ran, Statements[next]),
                                     locals |-> after.locals]]
  /\ UNCHANGED <<generator, pending, ops, held>>

SpecSteps == Init /\ [][GenerateStarts \/ GenerateStep]_vars

\* ------------------------------------------------------ QRCode.generateBatch
\* "Complete"
Complete == <<67, 111, 109, 112, 108, 101, 116, 101>>

\* the items of the arrays: "7", "HELLO WORLD" and the empty string
BatchItems == {Rep(55, 1), HelloWorld, << >>}

\* the calls made of generateBatch(dataArray, format, options,
\* progressCallback): every array of up to MaxBatch items, the level left
\* out or L
BatchCalls ==
  [data : UNION {[1..n -> BatchItems] : n \in 0..MaxBatch},
   options : [errorCorrectionLevel : {NoLevel, "L"},
              version : {Undefined},
              maskPattern : {Undefined}]]

\* ValidationUtils.validateBatchOptions; item is the index of the item found
\* invalid, counted from 1
validateBatchOptions(dataArray, options) ==
  IF Len(dataArray) = 0
  THEN [valid |-> FALSE, error |-> "Data array cannot be empty", item |-> 0]
  ELSE LET invalid == {i \in 1..Len(dataArray) :
                         ~ValidationUtils_validateInput(dataArray[i], options).valid}
       IN IF invalid # {}
          THEN LET first == CHOOSE i \in invalid : \A j \in invalid : i <= j
               IN [valid |-> FALSE,
                   error |-> ValidationUtils_validateInput(dataArray[first], options).error,
                   item |-> first]
          ELSE [valid |-> TRUE, error |-> "", item |-> 0]

\* progressCallback(completed, total, current) with the count of completed
\* items one ahead
progressCallback_oneAhead(log, completed, total, current) ==
  Append(log, [completed |-> completed + 1, total |-> total, current |-> current])

\* what the caller's progressCallback has been called with so far
progressCallback(log, completed, total, current) ==
  Append(log, [completed |-> completed, total |-> total, current |-> current])

\* the loop of generateBatch: i is its index, callbacks what progressCallback
\* was called with, generated the indices this.generate was called for,
\* results the array results
BatchLoop(i, callbacks, generated, results) ==
  [i |-> i, callbacks |-> callbacks, generated |-> generated, results |-> results]

\* a caller runs generateBatch up to its loop
QRCode_generateBatch ==
  /\ outcome.api = "none"
  /\ \E q \in BatchCalls :
       LET validation == validateBatchOptions(q.data, q.options)
       IN outcome' = Outcome("QRCode.generateBatch",
                             IF validation.valid THEN "loop" ELSE "threw",
                             q, NoArguments, validation.error,
                             BatchLoop(0, << >>, << >>, << >>))
  /\ UNCHANGED <<qrGenerator, generator, pending, ops, held>>

\* the loop reports the progress for item i
Batch_progress ==
  /\ outcome.api = "QRCode.generateBatch"
  /\ outcome.phase = "loop"
  /\ outcome.result.i < Len(outcome.request.data)
  /\ LET loop == outcome.result
         data == outcome.request.data[loop.i + 1]
     IN outcome' = [outcome EXCEPT
                      !.phase = "progressed",
                      !.result.callbacks =
                        progressCallback(loop.callbacks, loop.i,
                                         Len(outcome.request.data), data)]
  /\ UNCHANGED <<qrGenerator, generator, pending, ops, held>>

\* the loop calls this.generate for item i, which runs up to its await of
\* renderMatrix
Batch_generate ==
  /\ outcome.api = "QRCode.generateBatch"
  /\ outcome.phase = "progressed"
  /\ LET loop == outcome.result
         data == outcome.request.data[loop.i + 1]
         options == outcome.request.options
         validation == ValidationUtils_validateInput(data, options)
         arguments == generatorArguments(data, options)
     IN IF ~validation.valid
        THEN /\ outcome' = [outcome EXCEPT
                              !.phase = "threw",
                              !.threw = validation.error,
                              !.result.generated = Append(loop.generated, loop.i)]
             /\ UNCHANGED generator
        ELSE /\ generator' = Runs[arguments].assigned @@ generator
             /\ outcome' = [outcome EXCEPT
                              !.phase = IF Runs[arguments].threw = ""
                                        THEN "rendering" ELSE "threw",
                              !.arguments = arguments,
                              !.threw = Runs[arguments].threw,
                              !.result.generated = Append(loop.generated, loop.i)]
  /\ UNCHANGED <<qrGenerator, pending, ops, held>>

\* renderMatrix resolves: this.generate builds its result, the loop pushes
\* it and goes on to the next item
Batch_rendered ==
  /\ outcome.api = "QRCode.generateBatch"
  /\ outcome.phase = "rendering"
  /\ LET loop == outcome.result
         size == calculateOutputSize(generator.modules,
                                     mergeOptions(outcome.request.options))
     IN outcome' = [outcome EXCEPT
                      !.phase = "loop",
                      !.result.i = loop.i + 1,
                      !.result.results =
                        Append(loop.results,
                               [version |-> generator.version,
                                errorCorrectionLevel |-> generator.errorCorrectionLevel,
                                maskPattern |-> generator.maskPattern,
                                modules |-> generator.modules,
                                size |-> [width |-> size, height |-> size]])]
  /\ UNCHANGED <<qrGenerator, generator, pending, ops, held>>

\* renderMatrix rejects: this.generate rejects and the catch of the loop
\* throws
Batch_renderFails ==
  /\ outcome.api = "QRCode.generateBatch"
  /\ outcome.phase = "rendering"
  /\ outcome' = [outcome EXCEPT !.phase = "threw",
                                !.threw = "Failed to generate QR code for item"]
  /\ UNCHANGED <<qrGenerator, generator, pending, ops, held>>

\* the loop is over: the final progress update and the return of results
Batch_completes ==
  /\ outcome.api = "QRCode.generateBatch"
  /\ outcome.phase = "loop"
  /\ outcome.result.i >= Len(outcome.request.data)
  /\ outcome' = [outcome EXCEPT
                   !.phase = "resolved",
                   !.result.callbacks =
                     progressCallback(outcome.result.callbacks,
                                      Len(outcome.request.data),
                                      Len(outcome.request.data), Complete)]
  /\ UNCHANGED <<qrGenerator, generator, pending, ops, held>>

BatchNext ==
  \/ QRCode_generateBatch
  \/ Batch_progress
  \/ Batch_generate
  \/ Batch_rendered
  \/ Batch_renderFails
  \/ Batch_completes

SpecBatch == Init /\ [][BatchNext]_vars

\* ------------------------------------------ QRCode.generateWithOptimizedLogo
\* the sizes a logo is given: none, and the percentages at and next to the
\* ends of LOGO_CONSTRAINTS and its default
LogoSizes ==
  {Undefined,
   LOGO_CONSTRAINTS.MIN_WIDTH_PERCENT - 1, LOGO_CONSTRAINTS.MIN_WIDTH_PERCENT,
   LOGO_CONSTRAINTS.DEFAULT_WIDTH_PERCENT,
   LOGO_CONSTRAINTS.MAX_WIDTH_PERCENT, LOGO_CONSTRAINTS.MAX_WIDTH_PERCENT + 1}

\* the logo options: a source or none (""), a width and a height
LogoOptions == [src : {"company-logo.png", ""}, width : LogoSizes, height : LogoSizes]

\* the calls made of generateWithOptimizedLogo(data, format, options) with
\* options.logo set: "7" or "HELLO WORLD", the level left out or L
LogoCalls ==
  [data : {Rep(55, 1), HelloWorld},
   options : [errorCorrectionLevel : {NoLevel, "L"},
              version : {Undefined},
              maskPattern : {Undefined}],
   logo : LogoOptions]

validateLogoOptions(logo) ==
  IF logo.src = ""
  THEN ValidationResult(FALSE, "Logo source is required", Undefined)
  ELSE IF /\ logo.width # Undefined
          /\ \/ logo.width < LOGO_CONSTRAINTS.MIN_WIDTH_PERCENT
             \/ logo.width > LOGO_CONSTRAINTS.MAX_WIDTH_PERCENT
       THEN ValidationResult(FALSE, ERROR_MESSAGES.LOGO_TOO_LARGE, Undefined)
       ELSE IF /\ logo.height # Undefined
               /\ \/ logo.height < LOGO_CONSTRAINTS.MIN_HEIGHT_PERCENT
                  \/ logo.height > LOGO_CONSTRAINTS.MAX_HEIGHT_PERCENT
            THEN ValidationResult(FALSE, ERROR_MESSAGES.LOGO_TOO_LARGE, Undefined)
            ELSE ValidationResult(TRUE, "", Undefined)

\* ValidationUtils.validateInput(data, options) with options.logo set
validateInputWithLogo(data, options, logo) ==
  IF ~validateData(data).valid THEN validateData(data)
  ELSE IF ~validateOptions(options).valid THEN validateOptions(options)
  ELSE IF ~validateLogoOptions(logo).valid THEN validateLogoOptions(logo)
  ELSE ValidationUtils_validateInput(data, options)

\* ValidationUtils.validateInput({}, { logo: logoOptions }): validateData
\* accepts the object {}, validateOptions sees the logo alone, and
\* normalizeData({}) throws "Unsupported data type", which the catch of
\* validateInput turns into an invalid result
validateInputOfObject(logo) ==
  IF ~validateLogoOptions(logo).valid
  THEN validateLogoOptions(logo)
  ELSE ValidationResult(FALSE, "Unsupported data type", Undefined)

optimizeSize(size, defaultSize) ==
  IF size = Undefined THEN defaultSize
  ELSE IF size < LOGO_CONSTRAINTS.MIN_WIDTH_PERCENT THEN LOGO_CONSTRAINTS.MIN_WIDTH_PERCENT
  ELSE IF size > LOGO_CONSTRAINTS.MAX_WIDTH_PERCENT THEN LOGO_CONSTRAINTS.MAX_WIDTH_PERCENT
  ELSE size

\* LogoProcessor.validateAndOptimize: threw is the message of the error it
\* throws, "" when it returns optimized
validateAndOptimize(logoOptions) ==
  LET validation == validateInputOfObject(logoOptions)
  IN IF ~validation.valid
     THEN [threw |-> validation.error, optimized |-> logoOptions]
     ELSE [threw |-> "",
           optimized |->
             [logoOptions EXCEPT
                !.width = optimizeSize(logoOptions.width,
                                       LOGO_CONSTRAINTS.DEFAULT_WIDTH_PERCENT),
                !.height = optimizeSize(logoOptions.height,
                                        LOGO_CONSTRAINTS.DEFAULT_HEIGHT_PERCENT)]]

\* a caller runs generateWithOptimizedLogo(data, format, options) with
\* options.logo set: getLogoRecommendations validates and generates the
\* matrix, validateAndOptimize runs, and this.generate is called and runs
\* up to its await
QRCode_generateWithOptimizedLogo ==
  /\ \E q \in LogoCalls :
       LET validation == validateInputWithLogo(q.data, q.options, q.logo)
           arguments == generatorArguments(q.data, q.options)
           optimization == validateAndOptimize(q.logo)
           request == [data |-> q.data, options |-> q.options]
       IN IF ~validation.valid
          THEN /\ outcome' = Outcome("QRCode.generateWithOptimizedLogo", "threw",
                                     request, NoArguments, validation.error,
                                     [originalLogo |-> q.logo, optimizedLogo |-> q.logo])
               /\ UNCHANGED generator
          ELSE /\ generator' = Runs[arguments].assigned @@ generator
               /\ IF Runs[arguments].threw # ""
                  THEN outcome' = Outcome("QRCode.generateWithOptimizedLogo", "threw",
                                          request, arguments, Runs[arguments].threw,
                                          [originalLogo |-> q.logo,
                                           optimizedLogo |-> q.logo])
                  ELSE IF optimization.threw # ""
                  THEN outcome' = Outcome("QRCode.generateWithOptimizedLogo", "threw",
                                          request, arguments, optimization.threw,
                                          [originalLogo |-> q.logo,
                                           optimizedLogo |-> q.logo])
                  ELSE \E warnings \in BOOLEAN :
                         \E recommended \in {LOGO_CONSTRAINTS.DEFAULT_WIDTH_PERCENT,
                                              LOGO_CONSTRAINTS.DEFAULT_WIDTH_PERCENT - 5} :
                           outcome' =
                             Outcome("QRCode.generateWithOptimizedLogo", "suspended",
                                     request, arguments, "",
                                     [originalLogo |-> q.logo,
                                      optimizedLogo |->
                                        IF warnings
                                        THEN [optimization.optimized EXCEPT
                                                !.width = recommended,
                                                !.height = recommended]
                                        ELSE optimization.optimized])
  /\ UNCHANGED <<qrGenerator, pending, ops, held>>

SpecLogo == Init /\ [][QRCode_generateWithOptimizedLogo]_vars

\* ---------------------------------------------------- reading a state
\* generate has just returned its matrix, to its caller or to QRCode.generate
Returned == outcome.phase \in {"returned", "suspended"}

\* the generator the last call ran generate on
engine == IF outcome.api = "QRGenerator.generate" THEN qrGenerator ELSE generator

\* the level, version and mask the caller of the last call asked for
requested ==
  IF outcome.api \in {"QRCode.generate", "QRCode.validate"}
  THEN [level |-> IF outcome.request.options.errorCorrectionLevel # NoLevel
                  THEN outcome.request.options.errorCorrectionLevel
                  ELSE DEFAULT_OPTIONS.errorCorrectionLevel,
        version |-> outcome.request.options.version,
        mask |-> outcome.request.options.maskPattern]
  ELSE [level |-> outcome.request.level,
        version |-> outcome.request.version,
        mask |-> outcome.request.mask]

\* the CAPACITY_TABLE entry for a version it lists, a level and the mode of data
tableCapacity(version, level, data) ==
  CAPACITY_TABLE[ValidationUtils_detectDataMode(data)][version][level]

\* the messages of the two capacity errors the code has
CapacityErrors == {ERROR_MESSAGES.DATA_TOO_LONG, "Data too long for QR code"}

\* ------------------------------------------------------------------- claims
\* C1: with no forced version, generate resolves the version to the least
\* version whose CAPACITY_TABLE entry for the level and the detected mode
\* holds the payload (decided on the versions 1 and 2 the table lists, and
\* above 2 when neither holds it); "HELLO WORLD" at M resolves to version 1.
C1_MinimalTableVersion ==
  (Returned /\ requested.version = Undefined) =>
    LET length == Len(outcome.request.data)
        capacity1 == tableCapacity(1, requested.level, outcome.request.data)
        capacity2 == tableCapacity(2, requested.level, outcome.request.data)
    IN /\ length <= capacity1 => engine.version = 1
       /\ (length > capacity1 /\ length <= capacity2) => engine.version = 2
       /\ length > capacity2 => engine.version > 2
       /\ (outcome.request.data = HelloWorld /\ requested.level = "M") => engine.version = 1

\* C2: the returned matrix holds the finder ring pattern in its three 7x7
\* corners, and every separator module next to a finder pattern is light.
C2_FindersAndSeparators ==
  Returned =>
    LET matrix == engine.matrix
        modules == engine.modules
        corners == {<<0, 0>>, <<modules - 7, 0>>, <<0, modules - 7>>}
        separators ==
          {<<7, y>> : y \in 0..7} \cup {<<x, 7>> : x \in 0..7}
            \cup {<<modules - 8, y>> : y \in 0..7}
            \cup {<<x, 7>> : x \in (modules - 8)..(modules - 1)}
            \cup {<<x, modules - 8>> : x \in 0..7}
            \cup {<<7, y>> : y \in (modules - 8)..(modules - 1)}
    IN /\ \A corner \in corners : \A dx \in 0..6 : \A dy \in 0..6 :
            At(matrix, corner[1] + dx, corner[2] + dy) = FinderPatternRows[dy + 1][dx + 1]
       /\ \A cell \in separators : ~At(matrix, cell[1], cell[2])

\* C3: in the returned matrix, row 6 and column 6 at the indices 8..N-9 are
\* dark exactly at the even indices.
C3_TimingPatterns ==
  Returned =>
    \A i \in 8..(engine.modules - 9) :
      /\ At(engine.matrix, i, 6) = (i % 2 = 0)
      /\ At(engine.matrix, 6, i) = (i % 2 = 0)

\* C4: in the returned matrix, the module at column 8, row 4 * version + 9 is
\* dark.
C4_DarkModule ==
  Returned => At(engine.matrix, 8, 4 * engine.version + 9)

\* C5: masking inverts data modules only: every module of a finder pattern,
\* separator, timing pattern, alignment pattern, format strip or version
\* block, and the dark module, is in the returned matrix what it was before
\* the mask was applied.
C5_MaskSparesFunctionModules ==
  Returned =>
    LET version == engine.version
        modules == engine.modules
        before == Runs[outcome.arguments].placed
        positions == getAlignmentPatternPositions(version, modules)
        function(x, y) ==
          \/ x <= 8 /\ y <= 8
          \/ x >= modules - 8 /\ y <= 8
          \/ x <= 8 /\ y >= modules - 8
          \/ x = 6
          \/ y = 6
          \/ \E k \in 1..Len(positions) :
               /\ x - positions[k][1] \in -2..2
               /\ y - positions[k][2] \in -2..2
          \/ version >= 7 /\ x \in (modules - 11)..(modules - 9) /\ y \in 0..5
          \/ version >= 7 /\ y \in (modules - 11)..(modules - 9) /\ x \in 0..5
    IN \A x \in 0..(modules - 1) : \A y \in 0..(modules - 1) :
         function(x, y) => At(engine.matrix, x, y) = At(before, x, y)

C7_ForcedMaskHonoured ==
  (Returned /\ requested.mask \in 0..7) =>
    /\ outcome.arguments.mask = requested.mask
    /\ engine.maskPattern = requested.mask
    /\ engine.matrix = applyMask(Runs[outcome.arguments].placed, engine.modules,
                                 requested.mask)

\* C8: generate returns a matrix only when placement consumed every bit it
\* was handed and padded no module: a surplus or a shortfall is an error.
C8_PlacementMismatchAborts ==
  Returned =>
    /\ Runs[outcome.arguments].dataIndex = Runs[outcome.arguments].bits
    /\ Runs[outcome.arguments].padded = 0

\* C9: a call that forces a version whose CAPACITY_TABLE entry for the level
\* and the detected mode is below the payload length fails with a capacity
\* error, through QRGenerator.generate and through QRCode.generate.
C9_ForcedVersionCapacity ==
  (/\ outcome.api # "none"
   /\ requested.version \in DOMAIN CAPACITY_TABLE.byte
   /\ Len(outcome.request.data) >
        tableCapacity(requested.version, requested.level, outcome.request.data)) =>
    /\ outcome.phase = "threw"
    /\ outcome.threw \in CapacityErrors

\* C10: at level L in byte mode with no forced version, a payload of 2953
\* bytes is encoded and a payload of 2954 bytes fails with a capacity error.
C10_ByteBoundaryAtL ==
  (/\ outcome.api # "none"
   /\ requested.level = "L"
   /\ requested.version = Undefined
   /\ ValidationUtils_detectDataMode(outcome.request.data) = "byte") =>
    /\ Len(outcome.request.data) = ByteCapacity40L => outcome.phase # "threw"
    /\ Len(outcome.request.data) = ByteCapacity40L + 1 =>
         (outcome.phase = "threw" /\ outcome.threw \in CapacityErrors)

\* C11: a call that forces a version outside 1..40 or a mask outside 0..7
\* ends in an error and leaves every field of both generators as it was,
\* through QRCode.generate and through QRGenerator.generate.
C11_OutOfRangeRejected ==
  [][(/\ ops' = ops + 1
      /\ outcome'.api \in {"QRGenerator.generate", "QRCode.generate"}
      /\ \/ requested'.version \in OutOfRangeVersions
         \/ requested'.mask \in OutOfRangeMasks) =>
       (/\ outcome'.phase = "threw"
        /\ qrGenerator' = qrGenerator
        /\ generator' = generator)]_vars

\* C12: a payload of zero length is rejected: QRCode.validate reports it
\* invalid, and QRCode.generate and QRGenerator.generate end in an error
\* and return no matrix.
C12_EmptyPayloadRejected ==
  (outcome.api # "none" /\ outcome.phase # "resolved" /\ Len(outcome.request.data) = 0) =>
    /\ outcome.threw # ""
    /\ outcome.api # "QRCode.validate" => outcome.phase = "threw"

\* an empty payload was handed to QRGenerator.generate, which threw
C12_Witness ==
  /\ outcome.api = "QRGenerator.generate"
  /\ Len(outcome.request.data) = 0
  /\ outcome.phase = "threw"
  /\ outcome.threw = "Input data cannot be empty"

\* C13: for a non-empty payload both detectDataMode implementations answer
\* numeric exactly when every character is one of 0-9, otherwise
\* alphanumeric exactly when every character is one of 0-9, A-Z, space,
\* $ % * + - . / :, and otherwise byte.
C13_ModeDetection ==
  outcome.api = "detectDataMode" =>
    LET data == outcome.request.data
        digits == 48..57
        fortyFive == digits \cup (65..90) \cup {32, 36, 37, 42, 43, 45, 46, 47, 58}
        expected ==
          IF \A i \in 1..Len(data) : data[i] \in digits THEN "numeric"
          ELSE IF \A i \in 1..Len(data) : data[i] \in fortyFive THEN "alphanumeric"
          ELSE "byte"
    IN /\ Len(data) >= 1
       /\ outcome.result.validation = expected
       /\ outcome.result.generator =
            (IF expected = "numeric" THEN NUMERIC
             ELSE IF expected = "alphanumeric" THEN ALPHANUMERIC
             ELSE BYTE)

\* both implementations answered alphanumeric for a text that mixes a digit
\* with a character that is no digit
C13_Witness ==
  /\ outcome.api = "detectDataMode"
  /\ \E i \in 1..Len(outcome.request.data) : outcome.request.data[i] \in 48..57
  /\ outcome.result.validation = "alphanumeric"
  /\ outcome.result.generator = ALPHANUMERIC

\* C14: the mask automatic selection chooses has a penalty no greater than
\* that of any mask 0..7, and every mask of a lower index has a greater
\* penalty; so the choice is fixed by the matrix before masking.
C14_BestMaskLowestIndex ==
  (Returned /\ outcome.arguments.mask = Undefined) =>
    LET penalty == MaskPenalties[outcome.arguments]
        chosen == engine.maskPattern
    IN /\ chosen \in 0..7
       /\ \A pattern \in 0..7 : penalty[chosen] <= penalty[pattern]
       /\ \A pattern \in 0..(chosen - 1) : penalty[pattern] > penalty[chosen]

\* selection chose a mask whose penalty another mask of a higher index
\* reaches too
C14_Witness ==
  /\ Returned
  /\ outcome.arguments.mask = Undefined
  /\ \E pattern \in (engine.maskPattern + 1)..7 :
       MaskPenalties[outcome.arguments][pattern] =
         MaskPenalties[outcome.arguments][engine.maskPattern]

\* C15: the penalty that ranks the masks is the sum of the four rules: the
\* runs of five or more modules of one colour, the 2x2 blocks of one colour,
\* 40 for each 1:1:3:1:1 dark/light sequence with four light modules on one
\* side found in a row or a column, and 10 for each full 5% the share of
\* dark modules lies away from 50%.
C15_FourRulePenalty ==
  (Returned /\ outcome.arguments.mask = Undefined) =>
    LET modules == engine.modules
        chosen == engine.maskPattern
        masked == applyMaskToMatrix(Runs[outcome.arguments].placed, modules, chosen)
        finderLike == {<<TRUE, FALSE, TRUE, TRUE, TRUE, FALSE, TRUE,
                         FALSE, FALSE, FALSE, FALSE>>,
                       <<FALSE, FALSE, FALSE, FALSE,
                         TRUE, FALSE, TRUE, TRUE, TRUE, FALSE, TRUE>>}
        inRow(x, y) == [k \in 1..11 |-> At(masked, x + k - 1, y)]
        inColumn(x, y) == [k \in 1..11 |-> At(masked, x, y + k - 1)]
        sequences ==
          Cardinality({p \in (0..(modules - 11)) \X (0..(modules - 1)) :
                         inRow(p[1], p[2]) \in finderLike})
            + Cardinality({p \in (0..(modules - 1)) \X (0..(modules - 11)) :
                             inColumn(p[1], p[2]) \in finderLike})
        dark == Cardinality({p \in (0..(modules - 1)) \X (0..(modules - 1)) :
                               At(masked, p[1], p[2])})
        total == modules * modules
        away == IF 2 * dark >= total
                THEN 100 * dark - 50 * total
                ELSE 50 * total - 100 * dark
        rule3 == 40 * sequences
        rule4 == 10 * (away \div (5 * total))
    IN MaskPenalties[outcome.arguments][chosen] =
         calculateAdjacentPenalty(masked, modules)
           + calculateBlockPenalty(masked, modules) + rule3 + rule4

C17_SquareOfResolvedVersion ==
  Returned =>
    LET side == 17 + 4 * engine.version
    IN /\ Len(engine.matrix) = side
       /\ \A y \in 1..Len(engine.matrix) : Len(engine.matrix[y]) = side
       /\ engine.modules = side

\* generate resolved the version of a payload to 2 by itself and returned a
\* matrix of 25 rows
C17_Witness ==
  /\ Returned
  /\ requested.version = Undefined
  /\ engine.version = 2
  /\ Len(engine.matrix) = 25

\* C18: encodeData returns exactly 8 bits for each data codeword of the
\* version and level (19, 16, 13, 9 at version 1, 34, 28, 22, 16 at version
\* 2, 55, 44, 34, 26 at version 3, for L, M, Q, H): the payload bits, then
\* up to four zero bits, zero bits up to a multiple of 8, and the bytes
\* 0xEC, 0x11 in turn up to the capacity.
C18_PaddedToCapacity ==
  (Returned /\ engine.version \in 1..3) =>
    LET encoded == encodeData(QRGenerator_normalizeData(outcome.arguments.data))
        dataCodewords == [L |-> <<19, 34, 55>>, M |-> <<16, 28, 44>>,
                          Q |-> <<13, 22, 34>>, H |-> <<9, 16, 26>>]
        capacity == 8 * dataCodewords[engine.errorCorrectionLevel][engine.version]
        \* the bits after the first payload bits are terminator, fill and pad bytes
        paddedAfter(payload) ==
          LET terminated == IF capacity - payload < 4 THEN capacity ELSE payload + 4
              boundary == 8 * ((terminated + 7) \div 8)
          IN /\ \A k \in (payload + 1)..boundary : encoded[k] = 0
             /\ \A k \in (boundary + 1)..capacity :
                  encoded[k] =
                    toBits(IF ((k - boundary - 1) \div 8) % 2 = 0 THEN 236 ELSE 17,
                           8)[((k - boundary - 1) % 8) + 1]
    IN /\ Len(encoded) = capacity
       /\ \E payload \in 0..capacity : paddedAfter(payload)

\* C19: addErrorCorrection returns more than it was given: 8 bits for each
\* codeword of the version (26 at version 1, 44 at version 2, 70 at version
\* 3), which for a version of one block begin with the data it was given
\* and go on with the error-correction codewords.
C19_ErrorCorrectionAppended ==
  (Returned /\ engine.version \in 1..3) =>
    LET encodedData == encodeData(QRGenerator_normalizeData(outcome.arguments.data))
        finalData == addErrorCorrection(encodedData)
        totalCodewords == <<26, 44, 70>>
    IN /\ Len(finalData) > Len(encodedData)
       /\ Len(finalData) = 8 * totalCodewords[engine.version]
       /\ engine.version \in 1..2 =>
            SubSeq(finalData, 1, Len(encodedData)) = encodedData

\* C20: in the matrix generate returns, both format strips hold the 15 bits
\* of the format word: the two bits of the level (L 01, M 00, Q 11, H 10)
\* and the three bits of the mask the generator reports, followed by the
\* ten bits of their remainder modulo the polynomial 10100110111, the whole
\* XORed with 101010000010010; bit i of the word (bit 0 the last) lies at
\* column 8 in rows 0..5, 7, 8 and at row 8 in columns 7, 5..0 for the first
\* strip, and at row 8 from the right edge and at column 8 down to the
\* bottom edge for the second.
C20_FormatStrips ==
  (Returned /\ engine.maskPattern \in 0..7) =>
    LET matrix == engine.matrix
        modules == engine.modules
        level == engine.errorCorrectionLevel
        levelCode == IF level = "L" THEN <<0, 1>>
                     ELSE IF level = "M" THEN <<0, 0>>
                     ELSE IF level = "Q" THEN <<1, 1>>
                     ELSE <<1, 0>>
        data == levelCode \o toBits(engine.maskPattern, 3)
        polynomial == <<1, 0, 1, 0, 0, 1, 1, 0, 1, 1, 1>>
        remainder[k \in 0..5] ==
          IF k = 0
          THEN data \o <<0, 0, 0, 0, 0, 0, 0, 0, 0, 0>>
          ELSE LET prev == remainder[k - 1]
               IN IF prev[k] = 1
                  THEN [i \in 1..15 |->
                          IF i \in k..(k + 10)
                          THEN (prev[i] + polynomial[i - k + 1]) % 2
                          ELSE prev[i]]
                  ELSE prev
        constant == <<1, 0, 1, 0, 1, 0, 0, 0, 0, 0, 1, 0, 0, 1, 0>>
        word == [i \in 1..15 |->
                   ((IF i <= 5 THEN data[i] ELSE remainder[5][i]) + constant[i]) % 2]
        bit(i) == word[15 - i] = 1
        first(i) == IF i <= 5 THEN <<8, i>>
                    ELSE IF i = 6 THEN <<8, 7>>
                    ELSE IF i = 7 THEN <<8, 8>>
                    ELSE IF i = 8 THEN <<7, 8>>
                    ELSE <<14 - i, 8>>
        second(i) == IF i < 8 THEN <<modules - 1 - i, 8>>
                     ELSE <<8, modules - 15 + i>>
    IN \A i \in 0..14 :
         /\ At(matrix, first(i)[1], first(i)[2]) = bit(i)
         /\ At(matrix, second(i)[1], second(i)[2]) = bit(i)

\* C21: the encoded data begin with the four bits of the mode (0001
\* numeric, 0010 alphanumeric, 0100 byte), and the character count after
\* them takes 10, 12, 14 bits in numeric mode, 9, 11, 13 in alphanumeric
\* mode and 8, 16, 16 in byte mode for the versions 1..9, 10..26, 27..40.
C21_CountWidthByTier ==
  outcome.api \in {"encodeData.string", "encodeData.buffer"} =>
    LET version == outcome.request.version
        tier == IF version <= 9 THEN 1 ELSE IF version <= 26 THEN 2 ELSE 3
        mode == outcome.result.mode
        inputData == outcome.result.inputData
        width == IF mode = NUMERIC THEN <<10, 12, 14>>[tier]
                 ELSE IF mode = ALPHANUMERIC THEN <<9, 11, 13>>[tier]
                 ELSE <<8, 16, 16>>[tier]
        indicator == IF mode = NUMERIC THEN <<0, 0, 0, 1>>
                     ELSE IF mode = ALPHANUMERIC THEN <<0, 0, 1, 0>>
                     ELSE <<0, 1, 0, 0>>
        data == IF mode = NUMERIC THEN encodeNumeric(inputData)
                ELSE IF mode = ALPHANUMERIC THEN encodeAlphanumeric(inputData)
                ELSE encodeByte(inputData)
    IN /\ outcome.result.countBits = width
       /\ outcome.result.encoded =
            indicator \o toBits(Len(inputData), width) \o data

\* C22: in byte mode the bits after the character count are 8 for each
\* byte of the payload, each group the value of its byte, and the character
\* count is the number of bytes of the payload: the bytes of a Buffer, and
\* for a string the bytes of its characters (a character up to U+00FF is
\* one byte of its value; above, its two UTF-8 bytes up to U+07FF and its
\* three UTF-8 bytes beyond).
C22_ByteModeVerbatim ==
  (/\ outcome.api \in {"encodeData.string", "encodeData.buffer"}
   /\ outcome.result.mode = BYTE) =>
    LET data == outcome.request.data
        utf8(ch) == IF ch < 256 THEN <<ch>>
                    ELSE IF ch < 2048 THEN <<192 + (ch \div 64), 128 + (ch % 64)>>
                    ELSE <<224 + (ch \div 4096), 128 + ((ch \div 64) % 64),
                           128 + (ch % 64)>>
        bytesFrom[i \in 1..(Len(data) + 1)] ==
          IF i > Len(data) THEN << >> ELSE utf8(data[i]) \o bytesFrom[i + 1]
        bytes == IF outcome.api = "encodeData.buffer" THEN data
                 ELSE IF \A i \in 1..Len(data) : data[i] < 256 THEN data
                 ELSE bytesFrom[1]
        width == outcome.result.countBits
        encoded == outcome.result.encoded
    IN /\ SubSeq(encoded, 5, 4 + width) = toBits(Len(bytes), width)
       /\ Len(encoded) = 4 + width + 8 * Len(bytes)
       /\ \A k \in 1..Len(bytes) :
            SubSeq(encoded, 4 + width + 8 * k - 7, 4 + width + 8 * k)
              = toBits(bytes[k], 8)

\* C23: in numeric mode the bits after the character count are, for each
\* full group of three digits, the 10 bits of its decimal value, highest
\* bit first, then 7 bits for two digits left over or 4 bits for one; so n
\* digits give 10 * (n div 3) bits and 7, 4 or 0 more for n mod 3 = 2, 1, 0,
\* and "12345" gives 17 bits.
C23_NumericGroups ==
  (/\ outcome.api \in {"encodeData.string", "encodeData.buffer"}
   /\ outcome.result.mode = NUMERIC) =>
    LET digits == outcome.result.inputData
        n == Len(digits)
        header == 4 + outcome.result.countBits
        encoded == outcome.result.encoded
        digit(i) == digits[i] - 48
        \* the group that starts at digit 3 * g + 1
        size(g) == IF n - 3 * g >= 3 THEN 3 ELSE n - 3 * g
        value(g) == IF size(g) = 3
                    THEN 100 * digit(3 * g + 1) + 10 * digit(3 * g + 2) + digit(3 * g + 3)
                    ELSE IF size(g) = 2
                    THEN 10 * digit(3 * g + 1) + digit(3 * g + 2)
                    ELSE digit(3 * g + 1)
        width(g) == IF size(g) = 3 THEN 10 ELSE IF size(g) = 2 THEN 7 ELSE 4
        groups == (n + 2) \div 3
    IN /\ Len(encoded) - header =
            10 * (n \div 3) + (IF n % 3 = 2 THEN 7 ELSE IF n % 3 = 1 THEN 4 ELSE 0)
       /\ digits = OneToFive => Len(encoded) - header = 17
       /\ \A g \in 0..(groups - 1) : \A j \in 1..width(g) :
            /\ header + 10 * g + j <= Len(encoded)
            /\ encoded[header + 10 * g + j] = (value(g) \div (2 ^ (width(g) - j))) % 2

\* "12345" was encoded in numeric mode into 17 bits after the count, the
\* last 7 of them being 45
C23_Witness ==
  /\ outcome.api = "encodeData.string"
  /\ outcome.request.data = OneToFive
  /\ outcome.result.mode = NUMERIC
  /\ Len(outcome.result.encoded) = 4 + 10 + 17
  /\ SubSeq(outcome.result.encoded, 25, 31) = <<0, 1, 0, 1, 1, 0, 1>>

\* C24: the matrix generate returns for a version of 2..6 holds the 5x5
\* alignment ring around the one centre the official table gives it,
\* (4 * version + 10, 4 * version + 10), which is (18, 18) for version 2;
\* and no alignment pattern is placed for version 1.
C24_AlignmentAtOfficialCentres ==
  Returned =>
    LET version == engine.version
        centre == 4 * version + 10
    IN /\ version \in 2..6 =>
            \A dx \in -2..2 : \A dy \in -2..2 :
              At(engine.matrix, centre + dx, centre + dy)
                = AlignmentPatternRows[dy + 3][dx + 3]
       /\ version = 1 => getAlignmentPatternPositions(version, engine.modules) = << >>

\* C25: within a run of generate, placeDataModules runs after every
\* structural statement and reservation the version calls for, the choice
\* and the application of the mask run after placeDataModules,
\* addFormatInfo and addVersionInfo run after applyMask, no statement runs
\* twice, and the matrix generate returns is the matrix these left.
C25_StatementOrder ==
  /\ [](outcome.api = "generate" =>
         LET ran == outcome.result.ran
             before(i) == {ran[j] : j \in 1..(i - 1)}
             structural == {"initializeMatrix", "addFinderPatterns", "addSeparators",
                            "addAlignmentPatterns", "addTimingPatterns",
                            "addDarkModule", "reserveFormatInfo"}
                             \cup (IF qrGenerator.version >= 7
                                   THEN {"reserveVersionInfo"} ELSE {})
         IN \A i \in 1..Len(ran) :
              /\ ran[i] \notin before(i)
              /\ ran[i] = "placeDataModules" => structural \subseteq before(i)
              /\ ran[i] \in {"maskPattern", "applyMask"} =>
                   "placeDataModules" \in before(i)
              /\ ran[i] = "applyMask" => "maskPattern" \in before(i)
              /\ ran[i] \in {"addFormatInfo", "addVersionInfo"} =>
                   "applyMask" \in before(i)
              /\ ran[i] = "return" =>
                   /\ "addFormatInfo" \in before(i)
                   /\ qrGenerator.version >= 7 => "addVersionInfo" \in before(i))
  /\ [][(outcome'.api = "generate" /\ outcome'.phase = "return") =>
         qrGenerator'.matrix = qrGenerator.matrix]_vars

\* a run of version 7 returned, having run all sixteen statements
C25_Witness ==
  /\ outcome.api = "generate"
  /\ outcome.phase = "return"
  /\ qrGenerator.version = 7
  /\ Len(outcome.result.ran) = 16
  /\ Len(qrGenerator.matrix) = 45

\* C26: placeDataModules visits the modules in this order and gives the
\* k-th of them the k-th bit of its input: strips of two columns from the
\* right edge to the left, column 6 belonging to none (the strips right of it
\* end on column 7, those left of it begin on column 5), in each row the
\* right column before the left, the first strip from the bottom row up and
\* each following strip in the direction opposite to the one before it; so
\* the first module is the bottom right one and none is visited twice.  The
\* place of each module in the order is read off placements of inputs
\* whose k-th bit is a bit of the number k.
C26_ZigzagOrder ==
  (outcome.api = "generate" /\ outcome.phase = "placeDataModules") =>
    LET modules == qrGenerator.modules
        data == outcome.result.locals.finalData
        strips == (modules - 1) \div 2
        visits == 2 * modules * strips
        width == CHOOSE w \in 1..12 : 2 ^ w > visits /\ 2 ^ (w - 1) <= visits
        \* the placement of the input whose k-th bit is bit b - 1 of k
        probe == Tuple([b \in 1..width |->
                          placeDataModules(initializeMatrix(modules), modules,
                                           Tuple([k \in 1..visits |->
                                                    (k \div (2 ^ (b - 1))) % 2]))])
        \* the k of the visit that wrote the module cell last, 0 for none
        visit(cell) ==
          LET upTo[b \in 0..width] ==
                IF b = 0
                THEN 0
                ELSE upTo[b - 1]
                       + (IF At(probe[b].m, cell[1], cell[2]) THEN 2 ^ (b - 1) ELSE 0)
          IN upTo[width]
        \* the k-th module of the order claimed
        claimed(k) ==
          LET strip == ((k - 1) \div (2 * modules)) + 1
              count == ((k - 1) % (2 * modules)) \div 2
              right == IF modules + 1 - 2 * strip > 6
                       THEN modules + 1 - 2 * strip
                       ELSE modules - 2 * strip
          IN <<right - ((k - 1) % 2),
               IF strip % 2 = 1 THEN modules - 1 - count ELSE count>>
    IN /\ claimed(1) = <<modules - 1, modules - 1>>
       /\ \A b \in 1..width : probe[b].dataIndex = visits /\ probe[b].padded = 0
       /\ \A k \in 1..visits : visit(claimed(k)) = k
       /\ \A y \in 0..(modules - 1) : visit(<<6, y>>) = 0
       /\ \A k \in 1..visits :
            At(qrGenerator.matrix, claimed(k)[1], claimed(k)[2])
              = (k <= Len(data) /\ data[k] = 1)

\* placeDataModules placed the 108 bits of a payload on a matrix of version
\* 2, the first of them at the bottom right module and the second, a 1, left
\* of it
C26_Witness ==
  /\ outcome.api = "generate"
  /\ outcome.phase = "placeDataModules"
  /\ qrGenerator.version = 2
  /\ Len(outcome.result.locals.finalData) = 108
  /\ At(qrGenerator.matrix, 24, 24) = (outcome.result.locals.finalData[1] = 1)
  /\ outcome.result.locals.finalData[2] = 1
  /\ At(qrGenerator.matrix, 23, 24)

\* C27: on an array of n items that validation accepts, generateBatch calls
\* progressCallback with (i, n, item i) before it generates item i, for
\* i = 0, 1, ... in turn; when all n are generated it calls it once with
\* (n, n, "Complete") and resolves with n results, the i-th being that of
\* item i; and when generating item i fails it rejects with no item after i
\* generated and no "Complete" reported.
C27_BatchProgress ==
  (outcome.api = "QRCode.generateBatch" /\ validateBatchOptions(outcome.request.data,
                                                                outcome.request.options).valid) =>
    LET items == outcome.request.data
        n == Len(items)
        loop == outcome.result
        reported(i) == [completed |-> i, total |-> n, current |-> items[i + 1]]
        own(i) == Runs[generatorArguments(items[i + 1], outcome.request.options)].assigned
        progress == {k \in 1..Len(loop.callbacks) : loop.callbacks[k].current # Complete}
    IN /\ \A k \in 1..Len(loop.generated) :
            /\ loop.generated[k] = k - 1
            /\ k <= Len(loop.callbacks)
       /\ \A k \in progress : k <= n /\ loop.callbacks[k] = reported(k - 1)
       /\ Len(loop.callbacks) <= Len(loop.generated) + 1
       /\ \A k \in 1..Len(loop.results) :
            /\ loop.results[k].version = own(k - 1).version
            /\ loop.results[k].modules = own(k - 1).modules
            /\ loop.results[k].maskPattern = own(k - 1).maskPattern
       /\ outcome.phase = "resolved" =>
            /\ Len(loop.callbacks) = n + 1
            /\ progress = 1..n
            /\ loop.callbacks[n + 1] = [completed |-> n, total |-> n, current |-> Complete]
            /\ Len(loop.results) = n
            /\ Len(loop.generated) = n
       /\ outcome.phase # "resolved" => progress = 1..Len(loop.callbacks)
       /\ outcome.phase = "threw" =>
            /\ Len(loop.generated) = loop.i + 1
            /\ Len(loop.results) = loop.i

\* a batch of three items rejected when its second item failed to render
C27_Witness ==
  /\ outcome.api = "QRCode.generateBatch"
  /\ outcome.phase = "threw"
  /\ Len(outcome.request.data) = 3
  /\ outcome.result.i = 1
  /\ Len(outcome.result.callbacks) = 2
  /\ Len(outcome.result.results) = 1

\* C28: for a payload validation accepts and logo options with a source,
\* generateWithOptimizedLogo ends in no error, and the width and the height
\* of the optimized logo it reports lie in 5..30, whatever the sizes asked
\* for were.
C28_LogoOptimized ==
  (/\ outcome.api = "QRCode.generateWithOptimizedLogo"
   /\ ValidationUtils_validateInput(outcome.request.data, outcome.request.options).valid
   /\ outcome.result.originalLogo.src # "") =>
    /\ outcome.phase # "threw"
    /\ outcome.result.optimizedLogo.width \in
         LOGO_CONSTRAINTS.MIN_WIDTH_PERCENT..LOGO_CONSTRAINTS.MAX_WIDTH_PERCENT
    /\ outcome.result.optimizedLogo.height \in
         LOGO_CONSTRAINTS.MIN_HEIGHT_PERCENT..LOGO_CONSTRAINTS.MAX_HEIGHT_PERCENT

\* C29: when QRCode.generate is given no version, the version it hands to
\* the generator, the one validateCapacity suggests, is the version
\* determineVersion selects for the payload and the level; and for every
\* version getCapacityForVersion and getCapacity agree on whether the
\* payload fits.
C29_SuggestedVersionAgrees ==
  (/\ outcome.api = "QRCode.generate"
   /\ outcome.phase = "suspended"
   /\ requested.version = Undefined) =>
    LET data == outcome.request.data
        level == requested.level
        determined == determineVersion(QRGenerator_normalizeData(data), level)
    IN /\ determined.threw = ""
       /\ outcome.arguments.version = determined.value
       /\ \A version \in VALIDATION.MIN_VERSION..VALIDATION.MAX_VERSION :
            (Len(data) <= getCapacityForVersion(version, level,
                                                ValidationUtils_detectDataMode(data)))
              <=> (Len(data) <= getCapacity(version, level,
                                            QRGenerator_detectDataMode(data)))

\* C30: for a payload that validation accepts (no option set), the bits of
\* the character count encodeData writes, read as a binary number, are the
\* length of the payload, which is below 2 ^ width for the width
\* getCharCountBits returns.
C30_CountHoldsLength ==
  (/\ outcome.api \in {"encodeData.string", "encodeData.buffer"}
   /\ ValidationUtils_validateInput(outcome.result.inputData,
                                    [errorCorrectionLevel |-> NoLevel,
                                     version |-> Undefined,
                                     maskPattern |-> Undefined]).valid) =>
    LET width == outcome.result.countBits
        count == SubSeq(outcome.result.encoded, 5, 4 + width)
        number[k \in 0..width] == IF k = 0 THEN 0 ELSE 2 * number[k - 1] + count[k]
    IN /\ Len(outcome.result.inputData) < 2 ^ width
       /\ number[width] = Len(outcome.result.inputData)

====
